---- MODULE Spec2Model ----
(***************************************************************************)
(* Model of the snapshot inventory of zfs-event-exporter.                  *)
(*                                                                         *)
(*  - snapshotCollector (zfs/snapshot/snapshot.go): the store c.datasets,  *)
(*    filled by snapshotsState.parse at startup and after every snapshot   *)
(*    event, emptied by removeSnapshot on destroy events, read by Collect. *)
(*  - zfsSnapshotState (main.go): the store z.datasets filled by add.      *)
(*  - the event pipeline (zfs/snapshot/snapshot.go): the feed process      *)
(*    writes lines to a pipe, parseZpoolEvents decodes them into events    *)
(*    and sends each on an unbuffered channel, eventLoop receives them and *)
(*    applies them to the store under c.lck, scrapes read under c.lck.     *)
(*  - poolCollector (zfs/pool): every scrape runs zpool status, parses the  *)
(*    report with parseStatus and fills its metric vectors from the nodes.  *)
(*  - runTextFileOutput (main.go): every tick renders the metrics, and a   *)
(*    render whose hash differs from oldHash is written to a temporary    *)
(*    file that is renamed to the target.                                  *)
(*                                                                         *)
(* Text is modelled as sequences: an identifier is a sequence of tokens    *)
(* ("@" is the separator character, every other token stands for a run of  *)
(* characters that holds no "@"), a numeric field is a sequence of         *)
(* characters, a line is the sequence of its whitespace separated fields   *)
(* and a listing is a sequence of lines. A line of the event feed is the   *)
(* sequence of its tokens: " ", "=", the double quote, digits and letters  *)
(* of a number are single characters, every other token stands for a run   *)
(* of characters that holds none of these.                                 *)
(***************************************************************************)
EXTENDS Integers, Sequences, FiniteSets, TLC

VARIABLES
    phase,      \* "init" before newCollector, "up" once it returned a collector, "failed" when it returned an error
    datasets,   \* snapshotCollector.datasets: dataset -> sequence of snapshotState
    loop,       \* the eventLoop goroutine: "idle" (not started), "running", "exited"
    crashed,    \* TRUE once a goroutine panicked (the process is gone)
    zdatasets,  \* zfsSnapshotState.datasets: dataset -> sequence of snapshot
    keep,       \* the caller-supplied predicate, as the set of <<dataset, name>> it accepts
    before,     \* history: the store as it was when the last operation began
    last,       \* history: the last operation, its inputs and its outcome
    dec,        \* parseZpoolEvents: its position, lineno and the event it fills
    feed,       \* the feed: the process, the lines in the pipe, how much it wrote
    el,         \* eventLoop: its position, the event in hand, the listing in hand
    lck,        \* snapshotCollector.lck: TRUE while locked
    scr,        \* the scrapes: where each caller of Collect stands
    ctx,        \* TRUE once the context of NewCollector is cancelled
    hist,       \* history: lines decoded, events received, store after the last mutation
    collectorPool, \* poolCollector: its four metric vectors
    ph,         \* history: the scrapes of the pool collector, their reports and outputs
    pst,        \* parseStatus called on its own: its input and its state at the return
    tfo         \* runTextFileOutput: its position, buffer and oldHash, and the two files

pipevars == <<dec, feed, el, lck, scr, ctx, hist>>

\* what lies outside the snapshot collector and its pipeline
poolvars == <<collectorPool, ph, pst, tfo>>

vars == <<phase, datasets, loop, crashed, zdatasets, keep, before, last,
          dec, feed, el, lck, scr, ctx, hist, collectorPool, ph, pst,
          tfo>>

-----------------------------------------------------------------------------
(* Bounds *)

\* most records the store may hold, all datasets together
MaxRecords == 3

\* most lines of one listing
MaxLines == 2

\* most lines the decoder is given when it runs on its own
MaxFeedLines == 5

\* most records the feed writes to the running collector
MaxEvents == 2

\* most rows of a status report below its NAME header
MaxRows == 3

\* most runs of the text file output
MaxRenders == 4

\* most scrapes of the registry
MaxScrapes == 3

-----------------------------------------------------------------------------
(* Text helpers *)

Digits == {"0", "1", "2", "3", "4", "5", "6", "7", "8", "9"}

DigitVal(c) ==
    CASE c = "0" -> 0 [] c = "1" -> 1 [] c = "2" -> 2 [] c = "3" -> 3
      [] c = "4" -> 4 [] c = "5" -> 5 [] c = "6" -> 6 [] c = "7" -> 7
      [] c = "8" -> 8 [] c = "9" -> 9

\* value of a run of decimal digits
RECURSIVE DecimalValue(_)
DecimalValue(ds) ==
    IF ds = <<>> THEN 0
    ELSE 10 * DecimalValue(SubSeq(ds, 1, Len(ds) - 1)) + DigitVal(ds[Len(ds)])

AllDigits(ds) == ds # <<>> /\ \A i \in 1..Len(ds) : ds[i] \in Digits

\* strconv.ParseUint(f, 10, 64): digits only, no sign
ParseUint(f) ==
    IF AllDigits(f) THEN [err |-> FALSE, v |-> DecimalValue(f)]
    ELSE [err |-> TRUE, v |-> 0]

\* strconv.ParseInt(f, 10, 64): an optional sign, then digits
ParseInt(f) ==
    IF f # <<>> /\ f[1] \in {"+", "-"}
    THEN LET r == ParseUint(Tail(f))
         IN  IF r.err THEN r
             ELSE [err |-> FALSE, v |-> IF f[1] = "-" THEN 0 - r.v ELSE r.v]
    ELSE ParseUint(f)

\* strings.LastIndex(id, "@"), as a position 1..Len(id); 0 stands for -1
LastIndex(id) ==
    LET at == {i \in 1..Len(id) : id[i] = "@"}
    IN  IF at = {} THEN 0 ELSE CHOOSE i \in at : \A j \in at : j <= i

\* id[:idx] and id[idx+1:]
DatasetOf(id) == SubSeq(id, 1, LastIndex(id) - 1)
NameOf(id) == SubSeq(id, LastIndex(id) + 1, Len(id))

-----------------------------------------------------------------------------
(* The store *)

\* snapshotState{name, ts, used}
Snap(n, t, u) == [name |-> n, ts |-> t, used |-> u]

EmptyStore == [d \in {} |-> <<>>]

\* s[dataset], the nil slice when the key is missing
Get(s, d) == IF d \in DOMAIN s THEN s[d] ELSE <<>>

\* s[dataset] = list
Put(s, d, list) == [k \in DOMAIN s \cup {d} |-> IF k = d THEN list ELSE s[k]]

RECURSIVE SumLen(_, _)
SumLen(s, ks) ==
    IF ks = {} THEN 0
    ELSE LET k == CHOOSE x \in ks : TRUE IN Len(s[k]) + SumLen(s, ks \ {k})

Records(s) == SumLen(s, DOMAIN s)

\* insertion sort of sort.Slice (slices of at most 12 elements) with
\* less(i, j) = snapshots[i].ts.Before(snapshots[j].ts): an element moves
\* left past the elements whose ts is strictly later
RECURSIVE InsertBack(_, _)
InsertBack(sorted, x) ==
    IF sorted # <<>> /\ x.ts < sorted[Len(sorted)].ts
    THEN Append(InsertBack(SubSeq(sorted, 1, Len(sorted) - 1), x), sorted[Len(sorted)])
    ELSE Append(sorted, x)

RECURSIVE SortSlice(_)
SortSlice(list) ==
    IF list = <<>> THEN <<>>
    ELSE InsertBack(SortSlice(SubSeq(list, 1, Len(list) - 1)), list[Len(list)])

\* snapshotsState.parse: every line is appended to its dataset's slice, the
\* first malformed line returns an error and leaves the lines before it in
\* the map, and only a listing read to its end sorts the slices
\* the body of the scanner loop for one line
parseLine(s, fields) ==
    IF Len(fields) # 3 THEN [err |-> TRUE, s |-> s]
    ELSE IF LastIndex(fields[1]) = 0 THEN [err |-> TRUE, s |-> s]
    ELSE IF ParseInt(fields[2]).err THEN [err |-> TRUE, s |-> s]
    ELSE IF ParseUint(fields[3]).err THEN [err |-> TRUE, s |-> s]
    ELSE LET dataset == DatasetOf(fields[1])
             rec == Snap(NameOf(fields[1]), ParseInt(fields[2]).v, ParseUint(fields[3]).v)
         IN  [err |-> FALSE, s |-> Put(s, dataset, Append(Get(s, dataset), rec))]

\* the loop after the scan: every slice is sorted
sortAll(s) == [d \in DOMAIN s |-> SortSlice(s[d])]

RECURSIVE parseFrom(_, _, _)
parseFrom(s, lines, i) ==
    IF i > Len(lines)
    THEN [err |-> FALSE, s |-> sortAll(s)]
    ELSE LET r == parseLine(s, lines[i]) IN
         IF r.err THEN r ELSE parseFrom(r.s, lines, i + 1)

parse(s, lines) == parseFrom(s, lines, 1)

-----------------------------------------------------------------------------
(* Inputs *)

D1 == <<"d1">>
D2 == <<"d2">>
NA == <<"a">>
NB == <<"b">>
NC == <<"c">>

Id(d, n) == d \o <<"@">> \o n

Line(id, ts, used) == <<id, ts, used>>

WellFormedLines ==
    { Line(Id(D1, NA), <<"2">>, <<"1">>),
      Line(Id(D1, NB), <<"1">>, <<"2">>),
      Line(Id(D2, NA), <<"2">>, <<"1">>) }

\* one line for each error of parse: two fields, no "@", a timestamp that is
\* no integer, a size that is no unsigned integer
MalformedLines ==
    { <<Id(D1, NA), <<"1">>>>,
      Line(D1, <<"1">>, <<"1">>),
      Line(Id(D1, NA), <<"x">>, <<"1">>),
      Line(Id(D1, NA), <<"1">>, <<"-", "1">>) }

Lines == WellFormedLines \cup MalformedLines

\* the listings: parse returns at the first malformed line and never reads
\* what follows it, so a listing is a run of well-formed lines, ended or not
\* by one malformed line
Listings ==
    LET runs(m) == UNION {[1..n -> WellFormedLines] : n \in 0..m}
    IN  runs(MaxLines) \cup {w \o <<b>> : w \in runs(MaxLines - 1), b \in MalformedLines}

\* zpoolEvent.HistoryInternalName and zpoolEvent.HistoryDSName
EventNames == {<<"snapshot">>, <<"destroy">>, <<"hold">>}
EventIds == {Id(D1, NA), Id(D1, NB), Id(D2, NA), D1}

NoMetrics == [d \in {} |-> [count |-> 0, used |-> 0, last |-> 0]]

NoOp == [op |-> "none", dataset |-> <<>>, name |-> <<>>, lines |-> <<>>,
         listed |-> FALSE, err |-> FALSE, metrics |-> NoMetrics,
         ts |-> 0, used |-> 0, rep |-> FALSE, listErr |-> FALSE,
         action |-> <<>>, id |-> <<>>]

\* the callers of Collect: the registry of the HTTP handler and the one of
\* the text file output
Scrapers == {"http", "textfile"}

\* the pairs a keep predicate is asked about
Pairs == {<<D1, NA>>, <<D1, NB>>, <<D2, NA>>}

\* the keep predicates a caller may supply: one that accepts everything and
\* one that rejects the name b and the dataset d2
KeepSets == {Pairs, {<<D1, NA>>}}

\* inputs of zfsSnapshotState.add
AddDatasets == {D1, D2}
\* <<name, size, time>>: every name at two times, sizes that differ
AddRecords ==
    { <<NA, 1, 1>>, <<NA, 2, 2>>,
      <<NB, 1, 2>>, <<NB, 2, 3>>,
      <<NC, 2, 2>>, <<NC, 1, 3>> }

-----------------------------------------------------------------------------
(* The event feed and its decoder *)

\* the tokens of a feed line that are one byte long; every other token is
\* a run of bytes
OneByte == Digits \cup {" ", "=", "\"", "x", "f", "+", "-"}

\* what is left of a run that lost a byte
Cut == "~"

\* s[:len(s)-1] and s[1:]
DropLastByte(s) ==
    IF s = <<>> THEN <<>>
    ELSE IF s[Len(s)] \in OneByte THEN SubSeq(s, 1, Len(s) - 1)
    ELSE Append(SubSeq(s, 1, Len(s) - 1), Cut)

DropFirstByte(s) ==
    IF s = <<>> THEN <<>>
    ELSE IF s[1] \in OneByte THEN Tail(s)
    ELSE <<Cut>> \o Tail(s)

\* strings.IndexByte(line, c), as a position 1..Len(line); 0 stands for -1
IndexByte(line, c) ==
    LET at == {i \in 1..Len(line) : line[i] = c}
    IN  IF at = {} THEN 0 ELSE CHOOSE i \in at : \A j \in at : i <= j

\* strings.TrimSpace
RECURSIVE TrimSpace(_)
TrimSpace(s) ==
    IF s # <<>> /\ s[1] = " " THEN TrimSpace(Tail(s))
    ELSE IF s # <<>> /\ s[Len(s)] = " " THEN TrimSpace(SubSeq(s, 1, Len(s) - 1))
    ELSE s

\* strings.Fields
RECURSIVE Fields(_)
Fields(s) ==
    IF s = <<>> THEN <<>>
    ELSE IF s[1] = " " THEN Fields(Tail(s))
    ELSE LET sp == IndexByte(s, " ") IN
         IF sp = 0 THEN <<s>>
         ELSE <<SubSeq(s, 1, sp - 1)>> \o Fields(SubSeq(s, sp + 1, Len(s)))

HexDigits == Digits \cup {"f"}
OctDigits == {"0", "1", "2", "3", "4", "5", "6", "7"}

HexVal(c) == IF c = "f" THEN 15 ELSE DigitVal(c)

RECURSIVE BaseValue(_, _)
BaseValue(ds, base) ==
    IF ds = <<>> THEN 0
    ELSE base * BaseValue(SubSeq(ds, 1, Len(ds) - 1), base) + HexVal(ds[Len(ds)])

\* strconv.ParseInt(f, 0, 64): an optional sign, then "0x" and hex digits,
\* or "0" and octal digits, or decimal digits (the prefixes 0b and 0o and
\* the underscore are not in the alphabet)
ParseInt0(f) ==
    LET neg == f # <<>> /\ f[1] = "-"
        u == IF f # <<>> /\ f[1] \in {"+", "-"} THEN Tail(f) ELSE f
        ds == IF Len(u) >= 2 /\ u[1] = "0" /\ u[2] = "x" THEN SubSeq(u, 3, Len(u))
              ELSE IF Len(u) >= 2 /\ u[1] = "0" THEN Tail(u)
              ELSE u
        base == IF Len(u) >= 2 /\ u[1] = "0" /\ u[2] = "x" THEN 16
                ELSE IF Len(u) >= 2 /\ u[1] = "0" THEN 8
                ELSE 10
        digits == IF base = 16 THEN HexDigits ELSE IF base = 8 THEN OctDigits ELSE Digits
    IN  IF ds # <<>> /\ \A i \in 1..Len(ds) : ds[i] \in digits
        THEN [err |-> FALSE,
              v |-> IF neg THEN 0 - BaseValue(ds, base) ELSE BaseValue(ds, base)]
        ELSE [err |-> TRUE, v |-> 0]

\* trimDoubleQuotes
trimDoubleQuotes(s) ==
    IF Len(s) < 2 THEN s
    ELSE IF s[1] # "\"" \/ s[Len(s)] # "\"" THEN s
    ELSE SubSeq(s, 2, Len(s) - 1)

\* time.Time{} and time.Unix(secs, nanos)
ZeroTime == [set |-> FALSE, secs |-> 0, nanos |-> 0]
Unix(secs, nanos) == [set |-> TRUE, secs |-> secs, nanos |-> nanos]

\* new(zpoolEvent)
newEvent == [HistoryInternalName |-> <<>>, HistoryDSName |-> <<>>, Time |-> ZeroTime]

\* line[:sep-1] trimmed, and line[sep+2:], for "=" at position sep
KeyOf(line, sep) == TrimSpace(DropLastByte(SubSeq(line, 1, sep - 1)))
ValueOf(line, sep) == DropFirstByte(SubSeq(line, sep + 1, Len(line)))

\* a decoder that takes a field it cannot parse for a zero
parseTimeLenient(fields) ==
    [err |-> FALSE, t |-> Unix(ParseInt0(fields[1]).v, ParseInt0(fields[2]).v)]

\* parseZpoolEvents, case "time" with at least two fields: both are parsed,
\* the first that is no integer is the error the decoder returns
parseTime(fields) ==
    IF ParseInt0(fields[1]).err THEN [err |-> TRUE, t |-> ZeroTime]
    ELSE IF ParseInt0(fields[2]).err THEN [err |-> TRUE, t |-> ZeroTime]
    ELSE [err |-> FALSE, t |-> Unix(ParseInt0(fields[1]).v, ParseInt0(fields[2]).v)]

\* parseZpoolEvents before its first line
newDecoder == [pc |-> "scan", lineno |-> -1, event |-> newEvent]

\* parseZpoolEvents, one pass of the scanner loop over a line: pc is "send"
\* when the loop stands at ch <- event, "error" when it returned an error
scanLine(d, line) ==
    LET lineno == d.lineno + 1
        next == [d EXCEPT !.lineno = lineno]
        sep == IndexByte(line, "=")
    IN  IF line = <<>> THEN [next EXCEPT !.pc = "send"]
        ELSE IF lineno = 0 THEN next
        ELSE IF sep < 2 THEN next
        ELSE IF Len(line) < sep + 1 THEN next
        ELSE LET key == KeyOf(line, sep)
                 value == ValueOf(line, sep)
             IN  IF key = <<"time">>
                 THEN LET fields == Fields(value) IN
                      IF Len(fields) >= 2
                      THEN IF parseTime(fields).err
                           THEN [next EXCEPT !.pc = "error"]
                           ELSE [next EXCEPT !.event.Time = parseTime(fields).t]
                      ELSE next
                 ELSE IF key = <<"history_internal_name">>
                 THEN [next EXCEPT !.event.HistoryInternalName = trimDoubleQuotes(value)]
                 ELSE IF key = <<"history_dsname">>
                 THEN [next EXCEPT !.event.HistoryDSName = trimDoubleQuotes(value)]
                 ELSE next

\* a decoder that starts a new event but goes on counting the lines, so
\* that the first line of the next record is read as a field
afterSendKeepsLineno(d) == [pc |-> "scan", lineno |-> 0, event |-> newEvent]

\* a decoder that goes on filling the event it has sent
afterSendKeepsEvent(d) == [d EXCEPT !.pc = "scan", !.lineno = -1]

\* parseZpoolEvents, after ch <- event: a new event, lineno = -1, continue
afterSend(d) == [pc |-> "scan", lineno |-> -1, event |-> newEvent]

\* the lines of the feed
Blank == <<>>
Header == <<"Nov", " ", "2", "3", " ", "sysevent.fs.zfs.history_event">>
NameLine(n) == <<" ", "history_internal_name", " ", "=", " ", "\"">> \o n \o <<"\"">>
DsLine(id) == <<" ", "history_dsname", " ", "=", " ", "\"">> \o id \o <<"\"">>
TimeLine(v) == <<" ", "time", " ", "=", " ">> \o v

\* the lines the decoder is given when it runs on its own: the first of a
\* record is its header whatever it holds, a time of one field, a time whose
\* second field is no integer
FeedLines ==
    { Blank,
      NameLine(<<"snapshot">>),
      NameLine(<<"destroy">>),
      DsLine(Id(D1, NA)),
      TimeLine(<<"1", " ", "2">>),
      TimeLine(<<"1", " ", "x">>),
      TimeLine(<<"x">>) }

\* a line in the place of a field that holds a time no integer can be read
\* from, and one that holds two fields or more of which the decoder cannot
\* parse the first or the second
IsTimeLine(line) ==
    LET sep == IndexByte(line, "=") IN
    sep >= 2 /\ sep < Len(line) /\ KeyOf(line, sep) = <<"time">>

TimeFields(line) == Fields(ValueOf(line, IndexByte(line, "=")))

MalformedNumeric(line) ==
    /\ IsTimeLine(line)
    /\ \E i \in 1..Len(TimeFields(line)) :
         i <= 2 /\ ParseInt0(TimeFields(line)[i]).err

TwoFieldsMalformed(line) ==
    /\ MalformedNumeric(line)
    /\ Len(TimeFields(line)) >= 2

NoHist == [input |-> <<>>, events |-> <<>>, stable |-> EmptyStore, why |-> "",
           malformed |-> FALSE, terminal |-> FALSE, inflight |-> FALSE]

-----------------------------------------------------------------------------
(* The pool status report and its parser *)

\* A line of the status report is the sequence of its tokens: " ", the tab,
\* ":", "/" and the characters of a number are single bytes, every other
\* token is a word of the length WordBytes gives it.
Whitespace == {" ", "\t"}

WordBytes(tok) ==
    CASE tok \in {"no", "No"} -> 2
      [] tok = "SPLIT" -> 5
      [] tok \in {"pool", "NAME", "tank", "READ", "data"} -> 4
      [] tok \in {"state", "cache", "WRITE", "CKSUM", "STATE", "pools", "known"} -> 5
      [] tok \in {"ONLINE", "config", "errors"} -> 6
      [] tok \in {"dev/sda", "dev/sdb", "dev/sdc", "FAULTED", "OFFLINE",
                  "UNAVAIL", "REMOVED"} -> 7
      [] tok \in {"raidz1-0", "DEGRADED"} -> 8
      [] tok = "available" -> 9
      [] tok = "(resilvering)" -> 13
      [] OTHER -> 1

\* poolStates
poolStates ==
    << <<"online">>, <<"degraded">>, <<"faulted">>, <<"offline">>, <<"unavail">>,
       <<"removed">> >>

\* strings.ToLower of a health field
ToLower(f) ==
    [i \in 1..Len(f) |->
        CASE f[i] = "ONLINE" -> "online"
          [] f[i] = "DEGRADED" -> "degraded"
          [] f[i] = "FAULTED" -> "faulted"
          [] f[i] = "OFFLINE" -> "offline"
          [] f[i] = "UNAVAIL" -> "unavail"
          [] f[i] = "REMOVED" -> "removed"
          [] f[i] = "SPLIT" -> "split"
          [] OTHER -> f[i]]

\* zpoolConfigLine.Fields: strings.Fields, the line cut at runs of spaces
\* and tabs
RECURSIVE zpoolConfigLineFields(_)
zpoolConfigLineFields(z) ==
    IF z = <<>> THEN <<>>
    ELSE IF z[1] \in Whitespace THEN zpoolConfigLineFields(Tail(z))
    ELSE LET ws == {i \in 1..Len(z) : z[i] \in Whitespace}
             sp == IF ws = {} THEN 0 ELSE CHOOSE i \in ws : \A j \in ws : i <= j
         IN  IF sp = 0 THEN <<z>>
             ELSE <<SubSeq(z, 1, sp - 1)>> \o zpoolConfigLineFields(SubSeq(z, sp + 1, Len(z)))

\* the loop of zpoolConfigLine.Level: tabs are skipped, spaces are counted,
\* anything else ends the loop
RECURSIVE LevelSpaces(_)
LevelSpaces(z) ==
    IF z = <<>> THEN 0
    ELSE IF z[1] = "\t" THEN LevelSpaces(Tail(z))
    ELSE IF z[1] = " " THEN 1 + LevelSpaces(Tail(z))
    ELSE 0

\* zpoolConfigLine.Level
Level(z) == LevelSpaces(z) \div 2

\* strings.Index(line, "NAME") of a line whose first field is NAME: the
\* bytes before the field
RECURSIVE IndexNAME(_)
IndexNAME(z) == IF z[1] = "NAME" THEN 0 ELSE WordBytes(z[1]) + IndexNAME(Tail(z))

\* line[n:]: it panics when the line is shorter than n bytes; a word that
\* loses some of its bytes leaves a rest that is no whitespace
RECURSIVE SliceFrom(_, _)
SliceFrom(z, n) ==
    IF n = 0 THEN [panic |-> FALSE, line |-> z]
    ELSE IF z = <<>> THEN [panic |-> TRUE, line |-> <<>>]
    ELSE IF WordBytes(z[1]) <= n THEN SliceFrom(Tail(z), n - WordBytes(z[1]))
    ELSE [panic |-> FALSE, line |-> <<Cut>> \o Tail(z)]

\* a poolTrace is a Go slice: arr is its backing array, as long as the
\* capacity, len its length; the nil slice has no array
NilTrace == [arr |-> <<>>, len |-> 0]

TraceOf(t) == SubSeq(t.arr, 1, t.len)

\* []string{name}
NewTrace(name) == [arr |-> <<name>>, len |-> 1]

\* trace[0:n], which panics when n is beyond the capacity and brings back
\* what the array holds when n is beyond the length
Reslice(t, n) ==
    IF n > Len(t.arr) THEN [panic |-> TRUE, t |-> t]
    ELSE [panic |-> FALSE, t |-> [t EXCEPT !.len = n]]

\* append(trace, name): in place while the capacity allows, else into a new
\* array of twice the capacity whose other elements are empty strings
AppendTrace(t, name) ==
    IF t.len < Len(t.arr)
    THEN [arr |-> [t.arr EXCEPT ![t.len + 1] = name], len |-> t.len + 1]
    ELSE LET cap == IF Len(t.arr) = 0 THEN 1 ELSE 2 * Len(t.arr)
         IN  [arr |-> [i \in 1..cap |-> IF i <= t.len THEN t.arr[i]
                                      ELSE IF i = t.len + 1 THEN name
                                      ELSE <<>>],
              len |-> t.len + 1]

\* strings.Join(off, "/")
RECURSIVE JoinSlash(_)
JoinSlash(off) ==
    IF off = <<>> THEN <<>>
    ELSE IF Len(off) = 1 THEN off[1]
    ELSE off[1] \o <<"/">> \o JoinSlash(Tail(off))

\* poolTrace.Disk, of the elements p of a trace; the empty string is <<>>
Disk(p) ==
    IF Len(p) >= 2 /\ p[Len(p)] # <<>> /\ p[Len(p)][1] = "/" THEN p[Len(p)] ELSE <<>>

\* a Pool that keeps the name of the disk in the label
PoolKeepsDisk(p) ==
    JoinSlash(IF Len(p) >= 2 /\ p[1] = p[2] THEN Tail(p) ELSE p)

\* poolTrace.Pool
Pool(p) ==
    LET off == IF Len(p) >= 2 /\ p[1] = p[2] THEN Tail(p) ELSE p
    IN  JoinSlash(IF Disk(off) # <<>> THEN SubSeq(off, 1, Len(off) - 1) ELSE off)

\* a parseErrors that reads the counters from the last three fields
parseErrorsLastThree(fields) ==
    LET n == Len(fields) IN
    IF n < 5 THEN [err |-> {"fields"}, Read |-> 0, Write |-> 0, Cksum |-> 0]
    ELSE [err |-> {c \in {"read", "write", "cksum"} :
                      \/ c = "read" /\ ParseUint(fields[n - 2]).err
                      \/ c = "write" /\ ParseUint(fields[n - 1]).err
                      \/ c = "cksum" /\ ParseUint(fields[n]).err},
          Read |-> ParseUint(fields[n - 2]).v,
          Write |-> ParseUint(fields[n - 1]).v,
          Cksum |-> ParseUint(fields[n]).v]

\* a parseErrors that returns at the first column that is no number
parseErrorsFirstOnly(fields) ==
    IF Len(fields) < 5 THEN [err |-> {"fields"}, Read |-> 0, Write |-> 0, Cksum |-> 0]
    ELSE [err |-> IF ParseUint(fields[3]).err THEN {"read"}
                  ELSE IF ParseUint(fields[4]).err THEN {"write"}
                  ELSE IF ParseUint(fields[5]).err THEN {"cksum"}
                  ELSE {},
          Read |-> ParseUint(fields[3]).v,
          Write |-> ParseUint(fields[4]).v,
          Cksum |-> ParseUint(fields[5]).v]

\* parseErrors: the columns that are no unsigned integer, and the counters
\* when there is none
parseErrors(fields) ==
    IF Len(fields) < 5 THEN [err |-> {"fields"}, Read |-> 0, Write |-> 0, Cksum |-> 0]
    ELSE [err |-> {c \in {"read", "write", "cksum"} :
                      \/ c = "read" /\ ParseUint(fields[3]).err
                      \/ c = "write" /\ ParseUint(fields[4]).err
                      \/ c = "cksum" /\ ParseUint(fields[5]).err},
          Read |-> ParseUint(fields[3]).v,
          Write |-> ParseUint(fields[4]).v,
          Cksum |-> ParseUint(fields[5]).v]

\* a parseStatus whose result, offset and trace are kept from one call to
\* the next
keptStatus == [ph.cur.parsed EXCEPT !.err = {}, !.panic = FALSE]

\* the locals of parseStatus at its start: an empty result, diskLineOffset 0
\* and a nil trace
newStatus ==
    [pools |-> <<>>, disks |-> <<>>, diskLineOffset |-> 0, trace |-> NilTrace,
     err |-> {}, panic |-> FALSE]

\* a row of fewer than five fields that leaves the trace as it was
shortRowDropped(st, trace) == st

\* parseStatus, a row of fewer than five fields: the trace keeps its name
\* and nothing is emitted
shortRow(st, trace) == [st EXCEPT !.trace = trace]

\* parseStatus, a row of the config section: the line is cut at the offset
\* of the NAME column, the trace is cut to the row's level and gets the
\* row's name, and a row of five fields or more becomes a disk or a pool
statusRow(st, line, fields) ==
    LET cut == SliceFrom(line, st.diskLineOffset)
        re == Reslice(st.trace, Level(cut.line) + 1)
        trace == AppendTrace(re.t, fields[1])
        e == parseErrors(fields)
        errors == [Read |-> e.Read, Write |-> e.Write, Cksum |-> e.Cksum]
        p == TraceOf(trace)
    IN  IF cut.panic \/ re.panic THEN [st EXCEPT !.panic = TRUE]
        ELSE IF Len(fields) < 5 THEN shortRow(st, trace)
        ELSE IF e.err # {} THEN [st EXCEPT !.trace = trace, !.err = e.err]
        ELSE IF Disk(p) # <<>>
        THEN [st EXCEPT !.trace = trace,
                        !.disks = Append(@, [Name |-> Disk(p), Health |-> fields[2],
                                             Errors |-> errors, Pool |-> Pool(p)])]
        ELSE [st EXCEPT !.trace = trace,
                        !.pools = Append(@, [Name |-> Pool(p), Health |-> fields[2],
                                             Errors |-> errors])]

\* a pool: line that starts a new trace but leaves the offset of the NAME
\* column of the pool before it in place
poolLineKeepsOffset(st, fields) == [st EXCEPT !.trace = NewTrace(fields[2])]

\* parseStatus, a pool: line: the offset of the NAME column is unknown
\* again and the trace is a new slice that holds the pool's name
poolLine(st, fields) ==
    [st EXCEPT !.diskLineOffset = -1, !.trace = NewTrace(fields[2])]

\* parseStatus, the body of the scanner loop for one line
statusLine(st, line) ==
    LET fields == zpoolConfigLineFields(line)
        isPool == fields[1] = <<"pool", ":">>
        st1 == IF isPool THEN poolLine(st, fields) ELSE st
    IN  IF Len(fields) < 1 THEN st
        ELSE IF isPool /\ Len(fields) < 2 THEN [st EXCEPT !.panic = TRUE]
        ELSE IF fields[1][Len(fields[1])] = ":" THEN st1
        ELSE IF fields[1] = <<"NAME">>
        THEN IF IndexNAME(line) > 0
             THEN [st1 EXCEPT !.diskLineOffset = IndexNAME(line)]
             ELSE st1
        ELSE IF st1.diskLineOffset >= 0 THEN statusRow(st1, line, fields)
        ELSE st1

\* parseStatus: the lines are read in turn until one panics or returns an
\* error
RECURSIVE parseStatusFrom(_, _, _)
parseStatusFrom(st, lines, i) ==
    IF i > Len(lines) \/ st.panic \/ st.err # {} THEN st
    ELSE parseStatusFrom(statusLine(st, lines[i]), lines, i + 1)

\* parseStatus: an error returns no result
parseStatus(lines) ==
    LET st == parseStatusFrom(newStatus, lines, 1)
    IN  IF st.err # {} THEN [st EXCEPT !.pools = <<>>, !.disks = <<>>] ELSE st

\* a metric vector: the value of every label tuple it holds
EmptyVec == [l \in {} |-> 0]

\* a Reset that deletes nothing
ResetKeeps(m) == m

\* GaugeVec.Reset and CounterVec.Reset
ResetVec(m) == EmptyVec

\* m.WithLabelValues(labels...).Set(v)
VecSet(m, labels, v) ==
    [k \in DOMAIN m \cup {labels} |-> IF k = labels THEN v ELSE m[k]]

\* m.WithLabelValues(labels...).Add(v): the counter is created at 0
VecAdd(m, labels, v) ==
    VecSet(m, labels, (IF labels \in DOMAIN m THEN m[labels] ELSE 0) + v)

\* setStatus: the last label value is the health, lowered; every state of
\* poolStates gets a series, 1 for the state that equals it and 0 else
RECURSIVE setStatusFrom(_, _, _, _)
setStatusFrom(m, labelValues, status, i) ==
    IF i > Len(poolStates) THEN m
    ELSE setStatusFrom(
            VecSet(m, Append(SubSeq(labelValues, 1, Len(labelValues) - 1), poolStates[i]),
                   IF poolStates[i] = status THEN 1 ELSE 0),
            labelValues, status, i + 1)

setStatus(m, labelValues) ==
    setStatusFrom(m, labelValues, ToLower(labelValues[Len(labelValues)]), 1)

\* a setErrors that adds the read errors to the write counter as well
setErrorsReadTwice(e, m, labelValues) ==
    VecAdd(VecAdd(VecAdd(m, Append(labelValues, <<"read">>), e.Read),
                  Append(labelValues, <<"write">>), e.Read + e.Write),
           Append(labelValues, <<"checksum">>), e.Cksum)

\* zpoolErrors.setErrors
setErrors(e, m, labelValues) ==
    VecAdd(VecAdd(VecAdd(m, Append(labelValues, <<"read">>), e.Read),
                  Append(labelValues, <<"write">>), e.Write),
           Append(labelValues, <<"checksum">>), e.Cksum)

\* poolCollector: its four metric vectors
newPoolCollector ==
    [metricStatus |-> EmptyVec, metricErrors |-> EmptyVec,
     metricDiskStatus |-> EmptyVec, metricDiskErrors |-> EmptyVec]

\* poolCollector.Collect, the loop over zpools.pools
RECURSIVE collectPools(_, _, _)
collectPools(c, pools, i) ==
    IF i > Len(pools) THEN c
    ELSE collectPools(
            [c EXCEPT !.metricStatus = setStatus(@, <<pools[i].Name, pools[i].Health>>),
                      !.metricErrors = setErrors(pools[i].Errors, @, <<pools[i].Name>>)],
            pools, i + 1)

\* poolCollector.Collect, the loop over zpools.disks
RECURSIVE collectDisks(_, _, _)
collectDisks(c, disks, i) ==
    IF i > Len(disks) THEN c
    ELSE collectDisks(
            [c EXCEPT !.metricDiskStatus =
                          setStatus(@, <<disks[i].Name, disks[i].Pool, disks[i].Health>>),
                      !.metricDiskErrors =
                          setErrors(disks[i].Errors, @, <<disks[i].Name, disks[i].Pool>>)],
            disks, i + 1)

\* poolCollector.Collect: an error of getStatus or of parseStatus panics
\* before anything is reset; else the four vectors are reset, filled from
\* the nodes and sent
poolCollect(c, getErr, data) ==
    LET zpools == parseStatus(data)
        reset == [metricStatus |-> ResetVec(c.metricStatus),
                  metricErrors |-> ResetVec(c.metricErrors),
                  metricDiskStatus |-> ResetVec(c.metricDiskStatus),
                  metricDiskErrors |-> ResetVec(c.metricDiskErrors)]
    IN  IF getErr \/ zpools.panic \/ zpools.err # {}
        THEN [panic |-> TRUE, c |-> c]
        ELSE [panic |-> FALSE,
              c |-> collectDisks(collectPools(reset, zpools.pools, 1), zpools.disks, 1)]

\* the rows of a report: the level below the NAME column, the name, the
\* health and the three counters; a row without counters has a name only
StatusRow(level, name, health, counts) ==
    [level |-> level, name |-> name, health |-> health, counts |-> counts]

Count3(r, w, c) == << <<r>>, <<w>>, <<c>> >>

RootRow == StatusRow(0, <<"tank">>, <<"ONLINE">>, Count3("0", "0", "0"))
SplitRow == StatusRow(0, <<"tank">>, <<"SPLIT">>, Count3("2", "4", "6"))
VdevRow == StatusRow(1, <<"raidz1-0">>, <<"DEGRADED">>, Count3("0", "0", "0"))
DiskRowA == StatusRow(1, <<"/", "dev/sda">>, <<"UNAVAIL">>, Count3("1", "2", "3"))
DiskRowB == StatusRow(2, <<"/", "dev/sdb">>, <<"REMOVED">>, Count3("0", "0", "1"))
CacheRow == StatusRow(0, <<"cache">>, <<>>, <<>>)
BadRow == StatusRow(1, <<"/", "dev/sdc">>, <<"ONLINE">>, Count3("x", "0", "0"))

StatusRows == {RootRow, SplitRow, VdevRow, DiskRowA, DiskRowB, CacheRow}

\* a report: the name on its pool: line and its rows; no pool at all is the
\* report of a host without pools
Report(pool, rows) == [pool |-> pool, rows |-> rows]
NoPools == Report(<<>>, <<>>)

RECURSIVE Spaces(_)
Spaces(n) == IF n = 0 THEN <<>> ELSE <<" ">> \o Spaces(n - 1)

RECURSIVE SpacedFields(_)
SpacedFields(fs) == IF fs = <<>> THEN <<>> ELSE <<" ", " ">> \o fs[1] \o SpacedFields(Tail(fs))

\* the line zpool status -pP prints for a row: a tab, two spaces for every
\* level, the name and the columns
RowLine(row) ==
    <<"\t">> \o Spaces(2 * row.level) \o row.name
        \o (IF row.health = <<>> THEN <<>> ELSE SpacedFields(<<row.health>> \o row.counts))

\* the text of a report
RenderStatus(report) ==
    IF report = NoPools THEN << <<"no", " ", "pools", " ", "available">> >>
    ELSE << <<" ", " ", "pool", ":", " ">> \o report.pool,
            <<" ", "state", ":", " ", "ONLINE">>,
            <<"config", ":">>,
            <<>>,
            <<"\t", "NAME", " ", " ", "STATE", " ", "READ", " ", "WRITE", " ", "CKSUM">> >>
         \o [i \in 1..Len(report.rows) |-> RowLine(report.rows[i])]
         \o << <<>>,
               <<"errors", ":", " ", "No", " ", "known", " ", "data", " ", "errors">> >>

\* the reports of the first scrape: every run of rows, a host without pools
\* and a report with a counter that is no number
StatusReports ==
    {Report(<<"tank">>, rows) : rows \in UNION {[1..n -> StatusRows] : n \in 0..MaxRows}}
        \cup {NoPools, Report(<<"tank">>, <<RootRow, BadRow>>)}

\* the report a later scrape may find instead of the first one: the disk
\* is back and zpool clear has reset a counter
OtherReports ==
    { Report(<<"tank">>,
             <<RootRow, StatusRow(1, <<"/", "dev/sda">>, <<"ONLINE">>, Count3("0", "2", "3"))>>) }

\* history of the scrapes before the first one
NoScrape ==
    [n |-> 0, k |-> 0,
     first |-> [report |-> NoPools, pools |-> <<>>, disks |-> <<>>,
                metricStatus |-> EmptyVec, metricDiskStatus |-> EmptyVec],
     prev |-> [report |-> NoPools, store |-> EmptyStore, out |-> newPoolCollector,
               snapshot |-> NoMetrics],
     cur |-> [report |-> NoPools, store |-> EmptyStore, out |-> newPoolCollector,
              snapshot |-> NoMetrics,
              parsed |-> [pools |-> <<>>, disks |-> <<>>, diskLineOffset |-> 0,
                          trace |-> NilTrace, err |-> {}, panic |-> FALSE]]]

\* the root row of a second pool, a disk at level 3, a disk whose row has a
\* note after its counters, and the rows whose counters are no numbers
DataRoot == StatusRow(0, <<"data">>, <<"ONLINE">>, Count3("0", "0", "0"))
DeepRow == StatusRow(3, <<"/", "dev/sdb">>, <<"FAULTED">>, Count3("4", "5", "6"))
NoteRow ==
    StatusRow(1, <<"/", "dev/sdc">>, <<"ONLINE">>,
              << <<"1">>, <<"2">>, <<"3">>, <<"(resilvering)">> >>)
BadRows ==
    {StatusRow(1, <<"/", "dev/sdc">>, <<"ONLINE">>, Count3(r, w, c)) :
        r \in {"0", "x"}, w \in {"0", "x"}, c \in {"0", "x"}}
      \ {StatusRow(1, <<"/", "dev/sdc">>, <<"ONLINE">>, Count3("0", "0", "0"))}

ParseRows == {RootRow, VdevRow, DiskRowA, DiskRowB, CacheRow, NoteRow, DeepRow}

\* a section of a report: the name on its pool: line, the lines between
\* its state: line and its config: line, and its rows
Section(pool, notes, rows) == [pool |-> pool, notes |-> notes, rows |-> rows]

RenderSection(sec) ==
    << <<" ", " ", "pool", ":", " ">> \o sec.pool,
       <<" ", "state", ":", " ", "ONLINE">> >>
      \o sec.notes
      \o << <<"config", ":">>,
            <<>>,
            <<"\t", "NAME", " ", " ", "STATE", " ", "READ", " ", "WRITE", " ", "CKSUM">> >>
      \o [i \in 1..Len(sec.rows) |-> RowLine(sec.rows[i])]
      \o << <<>>,
            <<"errors", ":", " ", "No", " ", "known", " ", "data", " ", "errors">> >>

\* the text of a report of several pools
RECURSIVE RenderDoc(_)
RenderDoc(doc) ==
    IF doc = <<>> THEN <<>> ELSE RenderSection(Head(doc)) \o RenderDoc(Tail(doc))

RowRuns(rows, m) == UNION {[1..n -> rows] : n \in 0..m}

\* a line shaped like a row at level 0, as a note above the config section
RowNote == RowLine(DataRoot)

\* the reports parseStatus is called with: one pool with every run of rows,
\* the runs that end in a row with a counter that is no number, two pools of
\* which the second has a note above its config section, and a pool whose
\* last row is two levels deeper than the row before it while rows of the
\* levels in between came earlier
ParseDocs ==
    {<<Section(<<"tank">>, <<>>, rows)>> : rows \in RowRuns(ParseRows, MaxRows)}
      \cup {<<Section(<<"tank">>, <<>>, Append(rows, b))>> :
                rows \in RowRuns(ParseRows, MaxRows - 1), b \in BadRows}
      \cup {<<Section(<<"tank">>, <<>>, <<RootRow, VdevRow, DiskRowB>>),
              Section(<<"data">>, notes, rows)>> :
                notes \in {<<>>, <<RowNote>>},
                rows \in RowRuns({DataRoot, DiskRowA, DiskRowB, CacheRow}, MaxRows - 1)}
      \cup {<<Section(<<"tank">>, <<>>,
                      <<RootRow, VdevRow, DiskRowB, CacheRow, DiskRowB>>)>>}

\* before parseStatus was called
NoParse == [called |-> FALSE, doc |-> <<>>, st |-> NoScrape.cur.parsed,
            res |-> NoScrape.cur.parsed]

\* what the metrics handler may render, and a file that holds a part of
\* what was to be written; the empty string is no content and no file
Contents == {"A", "B"}
Torn == "torn"

\* httpBuffer.Sum: the SHA-256 of what the handler wrote; the empty
\* sequence is the empty string oldHash starts with
NoHash == <<>>
Sum(content) == <<"sha256", content>>

\* runTextFileOutput before its first run: an empty buffer, oldHash = "",
\* neither the target file nor the temporary file exists
newTextFileOutput ==
    [pc |-> "idle", first |-> TRUE, n |-> 0, buf |-> "", oldHash |-> NoHash,
     file |-> "", tmp |-> "", ret |-> "none", rendered |-> ""]

-----------------------------------------------------------------------------
(* snapshotCollector *)

\* the loop of removeSnapshot over the slice header taken before the loop:
\* arr is the backing array (as long as the slice was at the start), len the
\* current length of c.datasets[datasetName], i the position of the range.
\* A match at i rewrites the array in place, append(s[:i], s[i+1:]...), and
\* s[i+1:] panics when i+1 is beyond the current length.
RECURSIVE removeLoop(_, _, _, _)
removeLoop(arr, len, i, snapshotName) ==
    IF i > Len(arr) THEN [panic |-> FALSE, list |-> SubSeq(arr, 1, len)]
    ELSE IF arr[i].name # snapshotName THEN removeLoop(arr, len, i + 1, snapshotName)
    ELSE IF i > len THEN [panic |-> TRUE, list |-> SubSeq(arr, 1, len)]
    ELSE removeLoop([k \in 1..Len(arr) |->
                        IF k < i THEN arr[k] ELSE IF k < len THEN arr[k + 1] ELSE arr[k]],
                    len - 1, i + 1, snapshotName)

\* removeSnapshot that deletes the key of a dataset whose slice became empty
removeSnapshotForgetsEmpty(s, datasetName, snapshotName) ==
    IF datasetName \notin DOMAIN s THEN [panic |-> FALSE, s |-> s]
    ELSE LET r == removeLoop(s[datasetName], Len(s[datasetName]), 1, snapshotName)
         IN  [panic |-> r.panic,
              s |-> IF r.list = <<>>
                    THEN [k \in DOMAIN s \ {datasetName} |-> s[k]]
                    ELSE Put(s, datasetName, r.list)]

\* removeSnapshot that stores the remaining slice back without the check of ok
removeSnapshotStoresBack(s, datasetName, snapshotName) ==
    LET r == removeLoop(Get(s, datasetName), Len(Get(s, datasetName)), 1, snapshotName)
    IN  [panic |-> r.panic, s |-> Put(s, datasetName, r.list)]

removeSnapshot(s, datasetName, snapshotName) ==
    IF datasetName \notin DOMAIN s THEN [panic |-> FALSE, s |-> s]
    ELSE LET r == removeLoop(s[datasetName], Len(s[datasetName]), 1, snapshotName)
         IN  [panic |-> r.panic, s |-> Put(s, datasetName, r.list)]

\* time.Time{}.Unix() is -62135596800; the model only needs a value below
\* every timestamp of its listings
ZeroTimeUnix == -100

RECURSIVE UsedLoop(_)
UsedLoop(list) ==
    IF list = <<>> THEN 0
    ELSE UsedLoop(SubSeq(list, 1, Len(list) - 1)) + list[Len(list)].used

\* the loop of Collect: count is the length, used the running sum, last the
\* ts of the record visited last
Aggregate(s) ==
    [d \in DOMAIN s |->
        [count |-> Len(s[d]),
         used  |-> UsedLoop(s[d]),
         last  |-> IF s[d] = <<>> THEN ZeroTimeUnix ELSE s[d][Len(s[d])].ts]]

Init ==
    /\ phase = "init"
    /\ datasets = EmptyStore
    /\ loop = "idle"
    /\ crashed = FALSE
    /\ zdatasets = EmptyStore
    /\ keep = Pairs
    /\ before = EmptyStore
    /\ last = NoOp
    /\ dec = newDecoder
    /\ feed = [state |-> "running", pipe |-> <<>>, n |-> 0]
    /\ el = [pc |-> "select", event |-> newEvent, data |-> <<>>, i |-> 0]
    /\ lck = FALSE
    /\ scr = [s \in Scrapers |-> "idle"]
    /\ ctx = FALSE
    /\ hist = NoHist
    /\ collectorPool = newPoolCollector
    /\ ph = NoScrape
    /\ pst = NoParse
    /\ tfo = newTextFileOutput

\* a newCollector that goes on with what parse left in the map when parse
\* returned an error
newCollectorIgnoresParseErr(listErr, parseErr) == listErr

\* newCollector, the two early returns: an error of listSnapshots and an
\* error of parse each return nil and the error
newCollectorReturnsErr(listErr, parseErr) == listErr \/ parseErr

\* newCollector: the startup listing is parsed into a fresh map; a listing
\* error or a parse error returns no collector and starts no event loop
Startup ==
    /\ phase = "init"
    /\ \E fail \in BOOLEAN, lines \in Listings :
         LET r == parse(EmptyStore, lines) IN
         /\ fail => lines = <<>>
         /\ Records(r.s) <= MaxRecords
         /\ IF newCollectorReturnsErr(fail, r.err)
            THEN /\ phase' = "failed"
                 /\ UNCHANGED <<datasets, loop>>
            ELSE /\ phase' = "up"
                 /\ datasets' = r.s
                 /\ loop' = "running"
         /\ before' = datasets
         /\ last' = [NoOp EXCEPT !.op = "startup", !.lines = lines,
                                 !.listed = TRUE, !.err = fail \/ r.err,
                                 !.listErr = fail]
    /\ UNCHANGED <<crashed, zdatasets, keep>>
    /\ UNCHANGED pipevars
    /\ UNCHANGED poolvars

\* the event loop is blocked in its select with a live process around it
LoopReady == phase = "up" /\ loop = "running" /\ ~crashed

\* an event loop without the check of the action name: whatever is not a
\* destroy is taken for a snapshot
dispatchAnyAction(action, id) ==
    IF LastIndex(id) = 0 THEN "continue"
    ELSE IF action = <<"destroy">> THEN "removeSnapshot"
    ELSE "addSnapshot"

\* eventLoop, case event := <-eventCh: what the loop does with an event. An
\* action other than snapshot and destroy, or an identifier without "@", is
\* skipped with continue.
dispatch(action, id) ==
    IF action # <<"snapshot">> /\ action # <<"destroy">> THEN "continue"
    ELSE IF LastIndex(id) = 0 THEN "continue"
    ELSE IF action = <<"destroy">> THEN "removeSnapshot"
    ELSE "addSnapshot"

\* eventLoop, the two continue branches
IgnoredEvent ==
    /\ LoopReady
    /\ \E action \in EventNames, id \in EventIds :
         /\ dispatch(action, id) = "continue"
         /\ last' = [NoOp EXCEPT !.op = "ignored", !.action = action,
                                 !.id = id]
    /\ before' = datasets
    /\ UNCHANGED <<phase, datasets, loop, crashed, zdatasets, keep>>
    /\ UNCHANGED pipevars
    /\ UNCHANGED poolvars

\* eventLoop, a destroy event: removeSnapshot under the lock, then continue
DestroyEvent ==
    /\ LoopReady
    /\ \E action \in EventNames, id \in EventIds :
         LET r == removeSnapshot(datasets, DatasetOf(id), NameOf(id)) IN
         /\ dispatch(action, id) = "removeSnapshot"
         /\ datasets' = r.s
         /\ crashed' = r.panic
         /\ last' = [NoOp EXCEPT !.op = "destroy", !.dataset = DatasetOf(id),
                                 !.name = NameOf(id), !.err = r.panic,
                                 !.action = action, !.id = id]
    /\ before' = datasets
    /\ UNCHANGED <<phase, loop, zdatasets, keep>>
    /\ UNCHANGED pipevars
    /\ UNCHANGED poolvars

\* an addSnapshot that parses what the listing command printed although the
\* command failed
addSnapshotIgnoresErr(s, listErr, data) ==
    LET r == parse(s, data) IN [err |-> listErr \/ r.err, s |-> r.s]

\* addSnapshot: a failed listing returns its error before the lock is taken
\* and drops the output that came with it, a listing that succeeded is parsed
\* into c.datasets
addSnapshot(s, listErr, data) ==
    IF listErr THEN [err |-> TRUE, s |-> s] ELSE parse(s, data)

\* eventLoop, a snapshot event: addSnapshot lists the dataset and parses the
\* listing into c.datasets under the lock; an error of either ends the loop.
\* A listing command that fails may have printed a line before it failed.
SnapshotEvent ==
    /\ LoopReady
    /\ \E action \in EventNames, id \in EventIds, fail \in BOOLEAN,
          lines \in Listings :
         LET r == addSnapshot(datasets, fail, lines) IN
         /\ dispatch(action, id) = "addSnapshot"
         /\ fail => Len(lines) <= 1
         /\ Records(parse(datasets, lines).s) <= MaxRecords
         /\ datasets' = r.s
         /\ loop' = IF r.err THEN "exited" ELSE loop
         /\ last' = [NoOp EXCEPT !.op = "snapshot", !.dataset = DatasetOf(id),
                                 !.name = NameOf(id), !.lines = lines,
                                 !.listed = TRUE, !.err = r.err,
                                 !.listErr = fail, !.action = action,
                                 !.id = id]
    /\ before' = datasets
    /\ UNCHANGED <<phase, crashed, zdatasets, keep>>
    /\ UNCHANGED pipevars
    /\ UNCHANGED poolvars

\* eventLoop, case <-ctx.Done()
Cancel ==
    /\ LoopReady
    /\ loop' = "exited"
    /\ before' = datasets
    /\ last' = [NoOp EXCEPT !.op = "cancel"]
    /\ UNCHANGED <<phase, datasets, crashed, zdatasets, keep>>
    /\ UNCHANGED pipevars
    /\ UNCHANGED poolvars

\* snapshotCollector.Collect, a scrape
Collect ==
    /\ phase = "up"
    /\ ~crashed
    /\ before' = datasets
    /\ last' = [NoOp EXCEPT !.op = "collect", !.metrics = Aggregate(datasets)]
    /\ UNCHANGED <<phase, datasets, loop, crashed, zdatasets, keep>>
    /\ UNCHANGED pipevars
    /\ UNCHANGED poolvars

Next ==
    \/ Startup
    \/ IgnoredEvent
    \/ DestroyEvent
    \/ SnapshotEvent
    \/ Cancel
    \/ Collect

Spec == Init /\ [][Next]_vars

-----------------------------------------------------------------------------
(* zfsSnapshotState *)

\* the scan of add: -1 when a record named snapshotName is met (return),
\* else idx, the count of records passed before the first one whose ts is
\* after time (break) or before the end of the slice
RECURSIVE addScan(_, _, _, _)
addScan(snapshots, i, snapshotName, time) ==
    IF i > Len(snapshots) THEN i - 1
    ELSE IF snapshots[i].name = snapshotName THEN -1
    ELSE IF snapshots[i].ts > time THEN i - 1
    ELSE addScan(snapshots, i + 1, snapshotName, time)

\* the scan of an add that does not look at the names
RECURSIVE addScanNoName(_, _, _)
addScanNoName(snapshots, i, time) ==
    IF i > Len(snapshots) THEN i - 1
    ELSE IF snapshots[i].ts > time THEN i - 1
    ELSE addScanNoName(snapshots, i + 1, time)

\* add without the check for a record that is already there
addNoNameCheck(s, datasetName, snapshotName, size, time) ==
    LET snap == Snap(snapshotName, time, size)
        snapshots == Get(s, datasetName)
        idx == addScanNoName(snapshots, 1, time)
    IN  Put(s, datasetName,
            SubSeq(snapshots, 1, idx) \o <<snap>> \o SubSeq(snapshots, idx + 1, Len(snapshots)))

\* the scan of an add that stops at the first record before time
RECURSIVE addScanBefore(_, _, _, _)
addScanBefore(snapshots, i, snapshotName, time) ==
    IF i > Len(snapshots) THEN i - 1
    ELSE IF snapshots[i].name = snapshotName THEN -1
    ELSE IF snapshots[i].ts < time THEN i - 1
    ELSE addScanBefore(snapshots, i + 1, snapshotName, time)

\* add with s.ts.Before(time) in the place of s.ts.After(time)
addBreakBefore(s, datasetName, snapshotName, size, time) ==
    LET snap == Snap(snapshotName, time, size) IN
    IF datasetName \notin DOMAIN s THEN Put(s, datasetName, <<snap>>)
    ELSE LET snapshots == s[datasetName]
             idx == addScanBefore(snapshots, 1, snapshotName, time)
         IN  IF idx = -1 THEN s
             ELSE Put(s, datasetName,
                      SubSeq(snapshots, 1, idx) \o <<snap>>
                          \o SubSeq(snapshots, idx + 1, Len(snapshots)))

\* zfsSnapshotState.add
add(s, datasetName, snapshotName, size, time) ==
    LET snap == Snap(snapshotName, time, size) IN
    IF datasetName \notin DOMAIN s THEN Put(s, datasetName, <<snap>>)
    ELSE LET snapshots == s[datasetName]
             idx == addScan(snapshots, 1, snapshotName, time)
         IN  IF idx = -1 THEN s
             ELSE Put(s, datasetName,
                      SubSeq(snapshots, 1, idx) \o <<snap>>
                          \o SubSeq(snapshots, idx + 1, Len(snapshots)))

\* one call of add, as run makes it for every snapshot it lists
Add ==
    /\ \E d \in AddDatasets, rec \in AddRecords :
         LET n == rec[1]
             size == rec[2]
             t == rec[3]
         IN
         /\ zdatasets' = add(zdatasets, d, n, size, t)
         /\ Records(zdatasets') <= MaxRecords
         /\ last' = [NoOp EXCEPT !.op = "add", !.dataset = d, !.name = n,
                                 !.ts = t, !.used = size,
                                 !.rep = /\ last.op = "add"
                                         /\ last.dataset = d /\ last.name = n
                                         /\ last.ts = t /\ last.used = size]
    /\ before' = zdatasets
    /\ UNCHANGED <<phase, datasets, loop, crashed, keep>>
    /\ UNCHANGED pipevars
    /\ UNCHANGED poolvars

NextInsert == Add

SpecInsert == Init /\ [][NextInsert]_vars

-----------------------------------------------------------------------------
(* The keep predicate *)

\* a line that parses to a record
WellFormed(fields) ==
    /\ Len(fields) = 3
    /\ LastIndex(fields[1]) # 0
    /\ ~ParseInt(fields[2]).err
    /\ ~ParseUint(fields[3]).err

\* a keep that is never asked
keepLinesAll(lines, keepSet) == lines

\* the lines of a listing without the records keep rejects
keepLines(lines, keepSet) ==
    SelectSeq(lines, LAMBDA fields :
        WellFormed(fields) => <<DatasetOf(fields[1]), NameOf(fields[1])>> \in keepSet)

\* newCollector called with a keep predicate
KeepStartup ==
    /\ phase = "init"
    /\ \E k \in KeepSets, lines \in Listings :
         LET r == parse(EmptyStore, keepLines(lines, k)) IN
         /\ Records(r.s) <= MaxRecords
         /\ keep' = k
         /\ IF r.err
            THEN /\ phase' = "failed"
                 /\ UNCHANGED <<datasets, loop>>
            ELSE /\ phase' = "up"
                 /\ datasets' = r.s
                 /\ loop' = "running"
         /\ before' = datasets
         /\ last' = [NoOp EXCEPT !.op = "startup", !.lines = lines,
                                 !.listed = TRUE, !.err = r.err]
    /\ UNCHANGED <<crashed, zdatasets>>
    /\ UNCHANGED pipevars
    /\ UNCHANGED poolvars

\* a snapshot event of a collector that has a keep predicate
KeepSnapshotEvent ==
    /\ LoopReady
    /\ \E id \in EventIds, lines \in Listings :
         LET r == parse(datasets, keepLines(lines, keep)) IN
         /\ LastIndex(id) # 0
         /\ Records(r.s) <= MaxRecords
         /\ datasets' = r.s
         /\ loop' = IF r.err THEN "exited" ELSE loop
         /\ last' = [NoOp EXCEPT !.op = "snapshot", !.dataset = DatasetOf(id),
                                 !.name = NameOf(id), !.lines = lines,
                                 !.listed = TRUE, !.err = r.err]
    /\ before' = datasets
    /\ UNCHANGED <<phase, crashed, zdatasets, keep>>
    /\ UNCHANGED pipevars
    /\ UNCHANGED poolvars

NextKeep ==
    \/ KeepStartup
    \/ KeepSnapshotEvent
    \/ DestroyEvent

SpecKeep == Init /\ [][NextKeep]_vars

-----------------------------------------------------------------------------
(* The decoder on its own, as TestZpoolEvents runs it *)

\* the reader holds one more line
FeedLine ==
    /\ feed.state = "running"
    /\ feed.pipe = <<>>
    /\ feed.n < MaxFeedLines
    /\ \E line \in FeedLines :
         feed' = [feed EXCEPT !.pipe = <<line>>, !.n = @ + 1]
    /\ UNCHANGED <<phase, datasets, loop, crashed, zdatasets, keep, before, last>>
    /\ UNCHANGED <<dec, el, lck, scr, ctx, hist>>
    /\ UNCHANGED poolvars

\* the reader of the test is at the end of its data
EndOfData ==
    /\ feed.state = "running"
    /\ feed.n > 0
    /\ feed' = [feed EXCEPT !.state = "eof"]
    /\ UNCHANGED <<phase, datasets, loop, crashed, zdatasets, keep, before, last>>
    /\ UNCHANGED <<dec, el, lck, scr, ctx, hist>>
    /\ UNCHANGED poolvars

\* parseZpoolEvents, scanner.Scan() returns a line and the loop body runs
\* up to the next Scan, to ch <- event or to a return
ReadLine ==
    /\ phase # "failed"
    /\ ~crashed
    /\ dec.pc = "scan"
    /\ feed.pipe # <<>>
    /\ LET line == Head(feed.pipe)
           field == line # <<>> /\ dec.lineno + 1 > 0
       IN  /\ dec' = scanLine(dec, line)
           /\ hist' = [hist EXCEPT
                  !.input = Append(@, line),
                  !.malformed = @ \/ (field /\ MalformedNumeric(line)),
                  !.terminal = @ \/ (field /\ TwoFieldsMalformed(line))]
    /\ feed' = [feed EXCEPT !.pipe = Tail(@)]
    /\ UNCHANGED <<phase, datasets, loop, crashed, zdatasets, keep, before, last>>
    /\ UNCHANGED <<el, lck, scr, ctx>>
    /\ UNCHANGED poolvars

\* parseZpoolEvents, scanner.Scan() returns false at the end of the data and
\* the function returns nil
ScanEOF ==
    /\ dec.pc = "scan"
    /\ feed.pipe = <<>>
    /\ feed.state = "eof"
    /\ dec' = [dec EXCEPT !.pc = "done"]
    /\ UNCHANGED <<phase, datasets, loop, crashed, zdatasets, keep, before, last>>
    /\ UNCHANGED <<feed, el, lck, scr, ctx, hist>>
    /\ UNCHANGED poolvars

\* TestZpoolEvents, for e := range ch: the event is appended to events
TestReceive ==
    /\ dec.pc = "send"
    /\ hist' = [hist EXCEPT !.events = Append(@, dec.event)]
    /\ dec' = afterSend(dec)
    /\ UNCHANGED <<phase, datasets, loop, crashed, zdatasets, keep, before, last>>
    /\ UNCHANGED <<feed, el, lck, scr, ctx>>
    /\ UNCHANGED poolvars

NextDecode ==
    \/ FeedLine
    \/ EndOfData
    \/ ReadLine
    \/ ScanEOF
    \/ TestReceive

SpecDecode == Init /\ [][NextDecode]_vars

-----------------------------------------------------------------------------
(* The running collector: feed, decoder, event loop and scrapes *)

LineA == Line(Id(D1, NA), <<"2">>, <<"1">>)
LineB == Line(Id(D1, NB), <<"1">>, <<"2">>)

\* what the listing command prints to the running collector: nothing, the
\* same snapshot twice, two snapshots the later first, and a snapshot
\* followed by a line of two fields
PipeListings ==
    { <<>>, <<LineA, LineA>>, <<LineA, LineB>>,
      <<LineA, <<Id(D1, NB), <<"1">>>>>> }

Record(name, id) == <<Header, NameLine(name), DsLine(id), Blank>>

\* the records the feed writes: a snapshot and a destroy of d1@a, a snapshot
\* of a dataset, a destroy whose time has a second field that is no integer,
\* and a destroy whose time has one field that is no integer
FeedRecords ==
    { Record(<<"snapshot">>, Id(D1, NA)),
      Record(<<"destroy">>, Id(D1, NA)),
      <<Header, TimeLine(<<"0", "x", "1", "f", " ", "1">>),
        NameLine(<<"snapshot">>), DsLine(D1), Blank>>,
      <<Header, NameLine(<<"destroy">>), TimeLine(<<"1", " ", "x">>),
        DsLine(Id(D1, NA)), Blank>>,
      <<Header, TimeLine(<<"x">>), NameLine(<<"destroy">>),
        DsLine(Id(D1, NA)), Blank>> }

\* a step of the pipeline that is no operation on the store
Step(name) == [NoOp EXCEPT !.op = name]

\* NewCollector and newCollector: the feed and the decoder are started, the
\* startup listing is parsed into a fresh map and the event loop is started;
\* an error of the feed's start, of the listing or of parse returns no
\* collector
PipeStartup ==
    /\ phase = "init"
    /\ \E fail \in BOOLEAN, lines \in PipeListings :
         LET r == parse(EmptyStore, lines) IN
         /\ fail => lines = <<>>
         /\ IF newCollectorReturnsErr(fail, r.err)
            THEN /\ phase' = "failed"
                 /\ UNCHANGED <<datasets, loop, hist>>
            ELSE /\ phase' = "up"
                 /\ datasets' = r.s
                 /\ loop' = "running"
                 /\ hist' = [hist EXCEPT !.stable = r.s]
         /\ last' = [NoOp EXCEPT !.op = "startup", !.lines = lines,
                                 !.listed = TRUE, !.err = fail \/ r.err,
                                 !.listErr = fail]
    /\ before' = datasets
    /\ UNCHANGED <<crashed, zdatasets, keep>>
    /\ UNCHANGED <<dec, feed, el, lck, scr, ctx>>
    /\ UNCHANGED poolvars

\* zpool events -f writes a record to the pipe
FeedRecord ==
    /\ phase # "failed"
    /\ ~crashed
    /\ feed.state = "running"
    /\ feed.pipe = <<>>
    /\ feed.n < MaxEvents
    /\ \E rec \in FeedRecords :
         feed' = [feed EXCEPT !.pipe = rec, !.n = @ + 1]
    /\ before' = datasets
    /\ last' = Step("step")
    /\ UNCHANGED <<phase, datasets, loop, crashed, zdatasets, keep>>
    /\ UNCHANGED <<dec, el, lck, scr, ctx, hist>>
    /\ UNCHANGED poolvars

\* the feed's process exits, of itself or killed by the cancelled context:
\* what it wrote stays readable, and nothing closes eventWriter
FeedExit ==
    /\ phase # "failed"
    /\ ~crashed
    /\ feed.state = "running"
    /\ feed' = [feed EXCEPT !.state = "exited"]
    /\ before' = datasets
    /\ last' = Step("step")
    /\ UNCHANGED <<phase, datasets, loop, crashed, zdatasets, keep>>
    /\ UNCHANGED <<dec, el, lck, scr, ctx, hist>>
    /\ UNCHANGED poolvars

\* main: the interrupt signal cancels the context
CtxCancel ==
    /\ phase = "up"
    /\ ~crashed
    /\ ~ctx
    /\ ctx' = TRUE
    /\ hist' = [hist EXCEPT !.inflight = loop = "running" /\ el.pc # "select"]
    /\ before' = datasets
    /\ last' = Step("step")
    /\ UNCHANGED <<phase, datasets, loop, crashed, zdatasets, keep>>
    /\ UNCHANGED <<dec, feed, el, lck, scr>>
    /\ UNCHANGED poolvars

\* an event loop that also receives while its listing runs
selectWaitsOrLists(pc) == pc \in {"select", "list"}

\* eventLoop stands at its select
selectWaits(pc) == pc = "select"

\* eventLoop, case event := <-eventCh: the decoder's send and the loop's
\* receive meet, the decoder goes on and the loop dispatches the event
Receive ==
    /\ LoopReady
    /\ selectWaits(el.pc)
    /\ dec.pc = "send"
    /\ LET e == dec.event
           k == dispatch(e.HistoryInternalName, e.HistoryDSName)
       IN  /\ el' = [el EXCEPT !.event = e,
                               !.pc = CASE k = "continue" -> "select"
                                        [] k = "removeSnapshot" -> "remove"
                                        [] k = "addSnapshot" -> "list"]
           /\ hist' = [hist EXCEPT !.events = Append(@, e)]
           /\ last' = [Step("receive") EXCEPT !.action = e.HistoryInternalName,
                                              !.id = e.HistoryDSName]
    /\ dec' = afterSend(dec)
    /\ before' = datasets
    /\ UNCHANGED <<phase, datasets, loop, crashed, zdatasets, keep>>
    /\ UNCHANGED <<feed, lck, scr, ctx>>
    /\ UNCHANGED poolvars

\* eventLoop, case <-ctx.Done(): break loop
CancelExit ==
    /\ LoopReady
    /\ el.pc = "select"
    /\ ctx
    /\ loop' = "exited"
    /\ hist' = [hist EXCEPT !.why = "cancel"]
    /\ before' = datasets
    /\ last' = Step("step")
    /\ UNCHANGED <<phase, datasets, crashed, zdatasets, keep>>
    /\ UNCHANGED <<dec, feed, el, lck, scr, ctx>>
    /\ UNCHANGED poolvars

\* a listing that runs under the context of NewCollector
listCtxDoneShared(cancelled) == cancelled

\* addSnapshot lists under context.Background(), which is never done
listCtxDone(cancelled) == FALSE

\* addSnapshot, c.listSnapshots returns: an error ends the loop, else the
\* output is kept for parse. Nothing makes the command return.
ListReturn ==
    /\ LoopReady
    /\ el.pc = "list"
    /\ \E fail \in BOOLEAN, lines \in PipeListings :
         /\ fail => lines = <<>>
         /\ IF listCtxDone(ctx)
            THEN /\ loop' = "exited"
                 /\ hist' = [hist EXCEPT !.why = "cancel"]
                 /\ el' = el
            ELSE IF fail
            THEN /\ loop' = "exited"
                 /\ hist' = [hist EXCEPT !.why = "error"]
                 /\ el' = el
            ELSE /\ el' = [el EXCEPT !.pc = "lock", !.data = lines]
                 /\ UNCHANGED <<loop, hist>>
         /\ last' = [Step("list") EXCEPT !.listed = TRUE, !.listErr = fail]
    /\ before' = datasets
    /\ UNCHANGED <<phase, datasets, crashed, zdatasets, keep>>
    /\ UNCHANGED <<dec, feed, lck, scr, ctx>>
    /\ UNCHANGED poolvars

\* parseZpoolEvents, the scanner loop over the lines in the pipe until it
\* stands at ch <- event, has returned, or finds the pipe empty
RECURSIVE scanLines(_, _)
scanLines(d, lines) ==
    IF lines = <<>> \/ d.pc # "scan" THEN [d |-> d, rest |-> lines]
    ELSE scanLines(scanLine(d, Head(lines)), Tail(lines))

\* parseZpoolEvents in the running collector: it reads what the feed wrote
ReadLines ==
    /\ phase # "failed"
    /\ ~crashed
    /\ dec.pc = "scan"
    /\ feed.pipe # <<>>
    /\ LET r == scanLines(dec, feed.pipe)
           read == SubSeq(feed.pipe, 1, Len(feed.pipe) - Len(r.rest))
           field(j) == read[j] # <<>> /\ dec.lineno + j > 0
       IN  /\ dec' = r.d
           /\ feed' = [feed EXCEPT !.pipe = r.rest]
           /\ hist' = [hist EXCEPT
                  !.input = @ \o read,
                  !.malformed = @ \/ \E j \in 1..Len(read) :
                                        field(j) /\ MalformedNumeric(read[j]),
                  !.terminal = @ \/ \E j \in 1..Len(read) :
                                       field(j) /\ TwoFieldsMalformed(read[j])]
    /\ before' = datasets
    /\ last' = Step("step")
    /\ UNCHANGED <<phase, datasets, loop, crashed, zdatasets, keep>>
    /\ UNCHANGED <<el, lck, scr, ctx>>
    /\ UNCHANGED poolvars

\* a mutex that lets everyone in
canLockAlways(l) == TRUE

\* sync.Mutex.Lock returns only when the mutex is unlocked
canLock(l) == ~l

\* addSnapshot, c.lck.Lock()
AddLock ==
    /\ LoopReady
    /\ el.pc = "lock"
    /\ canLock(lck)
    /\ lck' = TRUE
    /\ el' = [el EXCEPT !.pc = "parse", !.i = 1]
    /\ before' = datasets
    /\ last' = Step("step")
    /\ UNCHANGED <<phase, datasets, loop, crashed, zdatasets, keep>>
    /\ UNCHANGED <<dec, feed, scr, ctx, hist>>
    /\ UNCHANGED poolvars

\* addSnapshot, c.datasets.parse under the lock, one line of the scanner
\* loop at a time: a malformed line returns the error, unlocks and ends the
\* loop; the end of the listing sorts, unlocks and goes back to the select
ParseStep ==
    /\ LoopReady
    /\ el.pc = "parse"
    /\ IF el.i > Len(el.data)
       THEN /\ datasets' = sortAll(datasets)
            /\ lck' = FALSE
            /\ el' = [el EXCEPT !.pc = "select"]
            /\ hist' = [hist EXCEPT !.stable = sortAll(datasets)]
            /\ last' = [Step("snapshot") EXCEPT !.lines = el.data]
            /\ UNCHANGED loop
       ELSE LET r == parseLine(datasets, el.data[el.i]) IN
            IF r.err
            THEN /\ lck' = FALSE
                 /\ loop' = "exited"
                 /\ hist' = [hist EXCEPT !.stable = datasets, !.why = "error"]
                 /\ last' = [Step("snapshot") EXCEPT !.lines = el.data,
                                                     !.err = TRUE]
                 /\ UNCHANGED <<datasets, el>>
            ELSE /\ datasets' = r.s
                 /\ el' = [el EXCEPT !.i = @ + 1]
                 /\ last' = Step("step")
                 /\ UNCHANGED <<lck, loop, hist>>
    /\ before' = datasets
    /\ UNCHANGED <<phase, crashed, zdatasets, keep>>
    /\ UNCHANGED <<dec, feed, scr, ctx>>
    /\ UNCHANGED poolvars

\* removeSnapshot, c.lck.Lock()
RemoveLock ==
    /\ LoopReady
    /\ el.pc = "remove"
    /\ canLock(lck)
    /\ lck' = TRUE
    /\ el' = [el EXCEPT !.pc = "removing"]
    /\ before' = datasets
    /\ last' = Step("step")
    /\ UNCHANGED <<phase, datasets, loop, crashed, zdatasets, keep>>
    /\ UNCHANGED <<dec, feed, scr, ctx, hist>>
    /\ UNCHANGED poolvars

\* removeSnapshot under the lock: the loop over the slice, then the deferred
\* unlock; a panic unlocks too and takes the process down
RemoveStep ==
    /\ LoopReady
    /\ el.pc = "removing"
    /\ LET id == el.event.HistoryDSName
           r == removeSnapshot(datasets, DatasetOf(id), NameOf(id))
       IN  /\ datasets' = r.s
           /\ crashed' = r.panic
           /\ lck' = FALSE
           /\ el' = [el EXCEPT !.pc = IF r.panic THEN "removing" ELSE "select"]
           /\ hist' = IF r.panic THEN hist ELSE [hist EXCEPT !.stable = r.s]
           /\ last' = [Step("destroy") EXCEPT !.dataset = DatasetOf(id),
                                              !.name = NameOf(id),
                                              !.err = r.panic]
    /\ before' = datasets
    /\ UNCHANGED <<phase, loop, zdatasets, keep>>
    /\ UNCHANGED <<dec, feed, scr, ctx>>
    /\ UNCHANGED poolvars

\* a registry calls Collect
CollectCall(s) ==
    /\ phase = "up"
    /\ ~crashed
    /\ scr[s] = "idle"
    /\ scr' = [scr EXCEPT ![s] = "lock"]
    /\ before' = datasets
    /\ last' = Step("step")
    /\ UNCHANGED <<phase, datasets, loop, crashed, zdatasets, keep>>
    /\ UNCHANGED <<dec, feed, el, lck, ctx, hist>>
    /\ UNCHANGED poolvars

\* Collect, c.lck.Lock()
CollectLock(s) ==
    /\ ~crashed
    /\ scr[s] = "lock"
    /\ canLock(lck)
    /\ lck' = TRUE
    /\ scr' = [scr EXCEPT ![s] = "cs"]
    /\ before' = datasets
    /\ last' = Step("step")
    /\ UNCHANGED <<phase, datasets, loop, crashed, zdatasets, keep>>
    /\ UNCHANGED <<dec, feed, el, ctx, hist>>
    /\ UNCHANGED poolvars

\* Collect under the lock: the metrics are computed from c.datasets, then
\* the deferred unlock
CollectReturn(s) ==
    /\ ~crashed
    /\ scr[s] = "cs"
    /\ lck' = FALSE
    /\ scr' = [scr EXCEPT ![s] = "idle"]
    /\ before' = datasets
    /\ last' = [Step("collect") EXCEPT !.metrics = Aggregate(datasets)]
    /\ UNCHANGED <<phase, datasets, loop, crashed, zdatasets, keep>>
    /\ UNCHANGED <<dec, feed, el, ctx, hist>>
    /\ UNCHANGED poolvars

\* the pipeline from the feed to the store, with its ends: the exit of the
\* feed and the cancellation
NextPipe ==
    \/ PipeStartup
    \/ FeedRecord
    \/ FeedExit
    \/ CtxCancel
    \/ ReadLines
    \/ Receive
    \/ CancelExit
    \/ ListReturn
    \/ AddLock
    \/ ParseStep
    \/ RemoveLock
    \/ RemoveStep

SpecPipe == Init /\ [][NextPipe]_vars

\* the goroutines are scheduled: a send of the decoder that the loop waits
\* for takes place and the event loop takes the steps it is not blocked on.
\* No fairness for the feed, the cancellation and the return of the listing.
SpecPipeFair ==
    /\ SpecPipe
    /\ WF_vars(Receive \/ CancelExit \/ AddLock \/ ParseStep \/ RemoveLock \/ RemoveStep)

\* the pipeline with the scrapes that read the store while it runs
NextScrape ==
    \/ PipeStartup
    \/ FeedRecord
    \/ ReadLines
    \/ Receive
    \/ ListReturn
    \/ AddLock
    \/ ParseStep
    \/ RemoveLock
    \/ RemoveStep
    \/ \E s \in Scrapers : CollectCall(s)
    \/ \E s \in Scrapers : CollectLock(s)
    \/ \E s \in Scrapers : CollectReturn(s)

SpecScrape == Init /\ [][NextScrape]_vars

-----------------------------------------------------------------------------
(* The registry: a scrape collects from the snapshot and the pool collector *)

\* the reports zpool status may print at a scrape: any report at the first
\* scrape, later the first report again or another one
ScrapeReports == IF ph.n = 0 THEN StatusReports ELSE {ph.first.report} \cup OtherReports

\* a scrape in which zpool status fails or parseStatus fails or panics:
\* poolCollector.Collect panics in the goroutine the registry runs it in
GatherPanic ==
    /\ phase = "up"
    /\ ~crashed
    /\ ph.n < MaxScrapes
    /\ \E getErr \in BOOLEAN, report \in ScrapeReports :
         /\ getErr => report = NoPools
         /\ poolCollect(collectorPool, getErr, RenderStatus(report)).panic
         /\ last' = [Step("gather") EXCEPT !.err = TRUE, !.listErr = getErr]
    /\ crashed' = TRUE
    /\ before' = datasets
    /\ UNCHANGED <<phase, datasets, loop, zdatasets, keep>>
    /\ UNCHANGED pipevars
    /\ UNCHANGED poolvars

\* a scrape: the registry calls Collect of both collectors and gathers what
\* they send
Gather ==
    /\ phase = "up"
    /\ ~crashed
    /\ ph.n < MaxScrapes
    /\ \E report \in ScrapeReports :
         LET data == RenderStatus(report)
             r == poolCollect(collectorPool, FALSE, data)
             zpools == parseStatus(data)
             same == ph.n > 0 /\ report = ph.cur.report /\ datasets = ph.cur.store
         IN  /\ ~r.panic
             /\ collectorPool' = r.c
             /\ ph' = [n |-> ph.n + 1,
                       k |-> IF same THEN ph.k + 1 ELSE 1,
                       first |-> IF ph.n = 0
                                 THEN [report |-> report, pools |-> zpools.pools,
                                       disks |-> zpools.disks,
                                       metricStatus |-> r.c.metricStatus,
                                       metricDiskStatus |-> r.c.metricDiskStatus]
                                 ELSE ph.first,
                       prev |-> [report |-> ph.cur.report, store |-> ph.cur.store,
                                 out |-> ph.cur.out, snapshot |-> ph.cur.snapshot],
                       cur |-> [report |-> report, store |-> datasets, out |-> r.c,
                                snapshot |-> Aggregate(datasets), parsed |-> zpools]]
    /\ before' = datasets
    /\ last' = [Step("gather") EXCEPT !.metrics = Aggregate(datasets)]
    /\ UNCHANGED <<phase, datasets, loop, crashed, zdatasets, keep>>
    /\ UNCHANGED pipevars
    /\ UNCHANGED <<pst, tfo>>

NextPool ==
    \/ PipeStartup
    \/ GatherPanic
    \/ Gather

SpecPool == Init /\ [][NextPool]_vars

-----------------------------------------------------------------------------
(* parseStatus on its own, as TestPoolMetrics feeds it *)

\* parseStatus is called with the text of a report: st is the parser's state
\* when its loop ended, res what it returned
ParseStatusCall ==
    /\ ~pst.called
    /\ \E doc \in ParseDocs :
         pst' = [called |-> TRUE, doc |-> doc,
                 st |-> parseStatusFrom(newStatus, RenderDoc(doc), 1),
                 res |-> parseStatus(RenderDoc(doc))]
    /\ UNCHANGED <<phase, datasets, loop, crashed, zdatasets, keep, before, last>>
    /\ UNCHANGED pipevars
    /\ UNCHANGED <<collectorPool, ph, tfo>>

NextParse == ParseStatusCall

SpecParse == Init /\ [][NextParse]_vars

-----------------------------------------------------------------------------
(* runTextFileOutput: the periodic writer of the text file *)

\* run returns: the deferred buffer.Reset(); an error of the first run is
\* fatal to the process, an error of a later run is logged
runReturns(t, ret) ==
    [t EXCEPT !.buf = "", !.ret = ret, !.first = FALSE,
              !.pc = IF ret = "err" /\ t.first THEN "exit" ELSE "idle"]

\* run, up to os.Create: the handler renders into the buffer; a status
\* that is not 2xx is an error, a hash equal to oldHash ends the run, and a
\* hash that differs is kept in oldHash before the file is created
TextFileRender ==
    /\ tfo.pc = "idle"
    /\ tfo.n < MaxRenders
    /\ \E content \in Contents, statusCode \in {200, 500} :
         LET t == [tfo EXCEPT !.n = @ + 1, !.buf = content, !.rendered = content] IN
         tfo' = IF statusCode \div 100 # 2 THEN runReturns(t, "err")
                ELSE IF Sum(content) = tfo.oldHash THEN runReturns(t, "skip")
                ELSE [t EXCEPT !.oldHash = Sum(content),
                               !.pc = "create", !.ret = "none"]
    /\ UNCHANGED <<phase, datasets, loop, crashed, zdatasets, keep, before, last>>
    /\ UNCHANGED pipevars
    /\ UNCHANGED <<collectorPool, ph, pst>>

\* run, os.Create of the temporary file: it is empty when it was created
TextFileCreate ==
    /\ tfo.pc = "create"
    /\ \E fail \in BOOLEAN :
         tfo' = IF fail THEN runReturns(tfo, "err")
                ELSE [tfo EXCEPT !.tmp = "", !.pc = "copy"]
    /\ UNCHANGED <<phase, datasets, loop, crashed, zdatasets, keep, before, last>>
    /\ UNCHANGED pipevars
    /\ UNCHANGED <<collectorPool, ph, pst>>

\* run, io.Copy(f, buffer): a failed copy leaves a part of the content
TextFileCopy ==
    /\ tfo.pc = "copy"
    /\ \E fail \in BOOLEAN :
         tfo' = IF fail THEN runReturns([tfo EXCEPT !.tmp = Torn], "err")
                ELSE [tfo EXCEPT !.tmp = tfo.buf, !.pc = "close"]
    /\ UNCHANGED <<phase, datasets, loop, crashed, zdatasets, keep, before, last>>
    /\ UNCHANGED pipevars
    /\ UNCHANGED <<collectorPool, ph, pst>>

\* run, f.Close(): a failed close may have lost a part of the content
TextFileClose ==
    /\ tfo.pc = "close"
    /\ \E fail \in BOOLEAN, left \in {tfo.tmp, Torn} :
         tfo' = IF fail THEN runReturns([tfo EXCEPT !.tmp = left], "err")
                ELSE [tfo EXCEPT !.pc = "rename"]
    /\ UNCHANGED <<phase, datasets, loop, crashed, zdatasets, keep, before, last>>
    /\ UNCHANGED pipevars
    /\ UNCHANGED <<collectorPool, ph, pst>>

\* run, os.Rename of the temporary file to the target
TextFileRename ==
    /\ tfo.pc = "rename"
    /\ \E fail \in BOOLEAN :
         tfo' = IF fail THEN runReturns(tfo, "err")
                ELSE runReturns([tfo EXCEPT !.file = tfo.tmp, !.tmp = ""], "ok")
    /\ UNCHANGED <<phase, datasets, loop, crashed, zdatasets, keep, before, last>>
    /\ UNCHANGED pipevars
    /\ UNCHANGED <<collectorPool, ph, pst>>

NextText ==
    \/ TextFileRender
    \/ TextFileCreate
    \/ TextFileCopy
    \/ TextFileClose
    \/ TextFileRename

SpecText == Init /\ [][NextText]_vars

-----------------------------------------------------------------------------
(* The collector on identifiers that hold more than one "@" *)

\* d1@a@b is the snapshot b of the dataset d1@a for a split at the last "@",
\* and would be the snapshot a@b of d1 for a split at the first
IdAB == Id(Id(D1, NA), NB)

AtIds == {Id(D1, NA), Id(D1, NB), IdAB}

AtLines ==
    { Line(Id(D1, NA), <<"2">>, <<"1">>),
      Line(Id(D1, NB), <<"1">>, <<"2">>),
      Line(IdAB, <<"3">>, <<"1">>) }

AtListings == UNION {[1..n -> AtLines] : n \in 0..MaxLines}

\* newCollector: the startup listing is parsed into a fresh map
AtStartup ==
    /\ phase = "init"
    /\ \E fail \in BOOLEAN, lines \in AtListings :
         LET r == parse(EmptyStore, lines) IN
         /\ fail => lines = <<>>
         /\ IF newCollectorReturnsErr(fail, r.err)
            THEN /\ phase' = "failed"
                 /\ UNCHANGED <<datasets, loop>>
            ELSE /\ phase' = "up"
                 /\ datasets' = r.s
                 /\ loop' = "running"
         /\ before' = datasets
         /\ last' = [NoOp EXCEPT !.op = "startup", !.lines = lines,
                                 !.listed = TRUE, !.err = fail \/ r.err,
                                 !.listErr = fail]
    /\ UNCHANGED <<crashed, zdatasets, keep>>
    /\ UNCHANGED pipevars
    /\ UNCHANGED poolvars

\* eventLoop, a destroy event: the identifier is split at its last "@" and
\* removeSnapshot is called with the two parts
AtDestroyEvent ==
    /\ LoopReady
    /\ \E action \in EventNames, id \in AtIds :
         LET r == removeSnapshot(datasets, DatasetOf(id), NameOf(id)) IN
         /\ dispatch(action, id) = "removeSnapshot"
         /\ datasets' = r.s
         /\ crashed' = r.panic
         /\ last' = [NoOp EXCEPT !.op = "destroy", !.dataset = DatasetOf(id),
                                 !.name = NameOf(id), !.err = r.panic,
                                 !.action = action, !.id = id]
    /\ before' = datasets
    /\ UNCHANGED <<phase, loop, zdatasets, keep>>
    /\ UNCHANGED pipevars
    /\ UNCHANGED poolvars

\* eventLoop, a snapshot event: the identifier is split at its last "@" and
\* addSnapshot parses the listing of the dataset into c.datasets
AtSnapshotEvent ==
    /\ LoopReady
    /\ \E action \in EventNames, id \in AtIds, fail \in BOOLEAN,
          lines \in AtListings :
         LET r == addSnapshot(datasets, fail, lines) IN
         /\ dispatch(action, id) = "addSnapshot"
         /\ fail => lines = <<>>
         /\ Records(parse(datasets, lines).s) <= MaxRecords
         /\ datasets' = r.s
         /\ loop' = IF r.err THEN "exited" ELSE loop
         /\ last' = [NoOp EXCEPT !.op = "snapshot", !.dataset = DatasetOf(id),
                                 !.name = NameOf(id), !.lines = lines,
                                 !.listed = TRUE, !.err = r.err,
                                 !.listErr = fail, !.action = action,
                                 !.id = id]
    /\ before' = datasets
    /\ UNCHANGED <<phase, crashed, zdatasets, keep>>
    /\ UNCHANGED pipevars
    /\ UNCHANGED poolvars

NextAt ==
    \/ AtStartup
    \/ AtDestroyEvent
    \/ AtSnapshotEvent

SpecAt == Init /\ [][NextAt]_vars

-----------------------------------------------------------------------------
(* Properties *)

HasName(list, n) == \E i \in 1..Len(list) : list[i].name = n

NoDuplicateNames(list) ==
    \A i, j \in 1..Len(list) : i # j => list[i].name # list[j].name

NonDecreasing(list) ==
    \A i, j \in 1..Len(list) : i < j => list[i].ts <= list[j].ts

\* list without its i-th record
RemoveAt(list, i) == SubSeq(list, 1, i - 1) \o SubSeq(list, i + 1, Len(list))

\* the names of the lines of a listing that belong to dataset d
ListedNames(lines, d) ==
    {NameOf(lines[i][1]) : i \in {k \in 1..Len(lines) : DatasetOf(lines[k][1]) = d}}

MaxTs(list) == CHOOSE t \in {list[i].ts : i \in 1..Len(list)} :
                   \A i \in 1..Len(list) : list[i].ts <= t

\* C1: in every reachable state of the snapshot collector no dataset's list
\* holds two records with the same snapshot name
C1_NoDuplicateNames ==
    \A d \in DOMAIN datasets : NoDuplicateNames(datasets[d])

\* C2: a snapshot event for dataset D whose re-query succeeded merges the
\* returned lines per name: every record of before is still there, and D's
\* count grows by exactly the number of returned names that were not there
C2_SnapshotEventMerges ==
    (last.op = "snapshot" /\ ~last.err) =>
        /\ \A d \in DOMAIN before : \A i \in 1..Len(before[d]) :
              d \in DOMAIN datasets /\ \E j \in 1..Len(datasets[d]) : datasets[d][j] = before[d][i]
        /\ LET d == last.dataset
               new == {n \in ListedNames(last.lines, d) : ~HasName(Get(before, d), n)}
           IN  Len(Get(datasets, d)) = Len(Get(before, d)) + Cardinality(new)

\* C3: Remove(dataset, name) completes without panic for any list, leaves no
\* record with that name, keeps the other records in their order and keeps
\* the dataset's entry
C3_RemoveDeletesEveryMatch ==
    last.op = "destroy" =>
        /\ ~crashed
        /\ DOMAIN datasets = DOMAIN before
        /\ \A d \in DOMAIN before :
              datasets[d] = IF d = last.dataset
                            THEN SelectSeq(before[d], LAMBDA r : r.name # last.name)
                            ELSE before[d]

\* C4: Remove on an unknown pair (dataset not in the map, or no record with
\* that name in the dataset's list) leaves the store exactly as it was,
\* creates no entry and neither fails nor panics
C4_RemoveUnknownIsNoOp ==
    (/\ last.op = "destroy"
     /\ ~HasName(Get(before, last.dataset), last.name)) =>
        /\ datasets = before
        /\ ~crashed
        /\ ~last.err

C4_Witness ==
    /\ last.op = "destroy"
    /\ last.dataset \in DOMAIN before
    /\ before[last.dataset] # <<>>
    /\ ~HasName(before[last.dataset], last.name)

\* C5: Insert is idempotent: a second Insert with the same dataset, name,
\* timestamp and size leaves the store as the first call left it
C5_InsertIdempotent ==
    (last.op = "add" /\ last.rep) => zdatasets = before

C5_Witness ==
    /\ last.op = "add"
    /\ last.rep
    /\ Len(zdatasets[last.dataset]) >= 2

\* C6: Insert is a no-op whenever the dataset's list already holds a record
\* with the same name, whatever timestamp and size the new record carries,
\* hence no list ever holds two records with the same name
C6_InsertNoOpOnExistingName ==
    /\ (last.op = "add" /\ HasName(Get(before, last.dataset), last.name)) =>
          zdatasets = before
    /\ \A d \in DOMAIN zdatasets : NoDuplicateNames(zdatasets[d])

\* C7: after any sequence of Inserts into an empty store every dataset's list
\* is in non-decreasing timestamp order
C7_InsertKeepsOrder ==
    \A d \in DOMAIN zdatasets : NonDecreasing(zdatasets[d])

C7_Witness ==
    /\ last.op = "add"
    /\ zdatasets # before
    /\ last.dataset \in DOMAIN before
    /\ \E i, j \in 1..Len(before[last.dataset]) :
          /\ before[last.dataset][i].ts = last.ts
          /\ before[last.dataset][j].ts > last.ts

\* C8: a scrape reports for every dataset of the map the number of its
\* records, the sum of their sizes and the latest of their timestamps
C8_AggregateReports ==
    last.op = "collect" =>
        /\ DOMAIN last.metrics = DOMAIN datasets
        /\ \A d \in DOMAIN datasets :
              /\ last.metrics[d].count = Len(datasets[d])
              /\ last.metrics[d].used = UsedLoop(datasets[d])
              /\ datasets[d] # <<>> => last.metrics[d].last = MaxTs(datasets[d])

\* C9: a destroy event for a record of the store leaves the store as it was
\* but for exactly that record, and does not call the listing
C9_DestroyRemovesExactlyOne ==
    (last.op = "destroy" /\ HasName(Get(before, last.dataset), last.name)) =>
        /\ ~crashed
        /\ ~last.listed
        /\ \E i \in 1..Len(before[last.dataset]) :
              /\ before[last.dataset][i].name = last.name
              /\ datasets = Put(before, last.dataset, RemoveAt(before[last.dataset], i))

C11_FailedSyncNotApplied ==
    (/\ last.op = "snapshot"
     /\ \E i \in 1..Len(last.lines) : ~WellFormed(last.lines[i])) =>
        /\ last.err
        /\ datasets = before

\* C12: when the listing command of a snapshot event fails, the sync is
\* skipped and the store is left as it was before the event
C12_FailedListingSkipsSync ==
    (last.op = "snapshot" /\ last.listErr) => datasets = before

C12_Witness ==
    /\ last.op = "snapshot"
    /\ last.listErr
    /\ last.lines # <<>>
    /\ WellFormed(last.lines[1])
    /\ parse(before, last.lines).s # before
    /\ loop = "exited"

\* C18: an event whose action is neither snapshot nor destroy, or whose
\* identifier has no "@", leaves the store unchanged and triggers no listing,
\* and the loop goes on to the next event
C18_IgnoredEventIsNoOp ==
    (/\ last.op \in {"ignored", "destroy", "snapshot"}
     /\ \/ last.action \notin {<<"snapshot">>, <<"destroy">>}
        \/ LastIndex(last.id) = 0) =>
        /\ last.op = "ignored"
        /\ datasets = before
        /\ ~last.listed
        /\ LoopReady

C18_Witness ==
    /\ last.op = "ignored"
    /\ last.action = <<"hold">>
    /\ LastIndex(last.id) # 0
    /\ datasets # EmptyStore
    /\ HasName(Get(datasets, DatasetOf(last.id)), NameOf(last.id))

\* the records of the input: the lines before each blank line, back to the
\* blank line before
RECURSIVE Segments(_, _)
Segments(lines, cur) ==
    IF lines = <<>> THEN <<>>
    ELSE IF Head(lines) = <<>> THEN <<cur>> \o Segments(Tail(lines), <<>>)
    ELSE Segments(Tail(lines), Append(cur, Head(lines)))

CompleteRecords(input) == Segments(input, <<>>)

\* the line has the form key = value
HasKey(line, key) ==
    LET sep == IndexByte(line, "=") IN
    sep >= 2 /\ sep < Len(line) /\ KeyOf(line, sep) = key

\* the value of the last line of the record, its header aside, that has the
\* key and satisfies ok; none when there is no such line
LastValue(rec, key, ok(_), none) ==
    LET js == {j \in 2..Len(rec) : HasKey(rec[j], key) /\ ok(rec[j])}
    IN  IF js = {} THEN none
        ELSE LET j == CHOOSE i \in js : \A k \in js : k <= i
             IN  ValueOf(rec[j], IndexByte(rec[j], "="))

\* the event a record stands for
EventOfRecord(rec) ==
    LET any(l) == TRUE
        two(l) == Len(TimeFields(l)) >= 2
        t == Fields(LastValue(rec, <<"time">>, two, <<>>))
    IN  [HistoryInternalName |->
            trimDoubleQuotes(LastValue(rec, <<"history_internal_name">>, any, <<>>)),
         HistoryDSName |->
            trimDoubleQuotes(LastValue(rec, <<"history_dsname">>, any, <<>>)),
         Time |-> IF t = <<>> THEN ZeroTime
                  ELSE Unix(ParseInt0(t[1]).v, ParseInt0(t[2]).v)]

ExpectedEvents(input) ==
    LET recs == CompleteRecords(input)
    IN  [i \in 1..Len(recs) |-> EventOfRecord(recs[i])]

IsPrefix(a, b) == Len(a) <= Len(b) /\ SubSeq(b, 1, Len(a)) = a

\* the event loop holds the lock
LoopInside == el.pc \in {"parse", "removing"} /\ loop = "running" /\ ~crashed

\* C13: at most one of Collect, removeSnapshot and the parse of addSnapshot
\* is inside the critical section, and what a scrape reports is the
\* aggregate of the store as the last completed mutation left it
C13_MutualExclusion ==
    /\ Cardinality({s \in Scrapers : scr[s] = "cs"})
         + (IF LoopInside THEN 1 ELSE 0) <= 1
    /\ last.op = "collect" => last.metrics = Aggregate(hist.stable)

C13_Witness ==
    /\ el.pc = "parse"
    /\ el.i > 1
    /\ Aggregate(datasets) # Aggregate(hist.stable)
    /\ \E s \in Scrapers : scr[s] = "lock"

\* C14: a scrape that was issued is never left without a way to complete:
\* the process is alive, and if the lock is held, it is held by a scrape or
\* by the event loop at a step that no listing and no event can delay
C14_ScrapeCompletes ==
    \A s \in Scrapers :
        scr[s] # "idle" =>
            /\ ~crashed
            /\ lck => \/ \E t \in Scrapers : scr[t] = "cs"
                      \/ LoopInside

\* C15: while the loop is busy with an event, its listing included, it
\* receives no other and the decoder stays at its send; the events received
\* are the events of the first records of the stream, in their order
C15_OneEventAtATime ==
    [][/\ (loop = "running" /\ ~crashed /\ el.pc # "select") =>
             /\ hist'.events = hist.events
             /\ dec.pc = "send" => dec' = dec
       /\ IsPrefix(hist'.events, ExpectedEvents(hist'.input))]_vars

C15_Witness ==
    /\ el.pc = "list"
    /\ dec.pc = "send"
    /\ Len(hist.events) = 1
    /\ dec.event # hist.events[1]

\* C16: the events sent are the events of the complete records read so far,
\* one for each, in their order, each with the name, the identifier and the
\* time of its record; the lines after the last blank line yield no event
C16_OneEventPerRecord ==
    LET want == ExpectedEvents(hist.input) IN
    /\ dec.pc = "send" => want = Append(hist.events, dec.event)
    /\ dec.pc # "send" => want = hist.events

C16_Witness ==
    /\ dec.pc = "done"
    /\ Len(hist.events) = 2
    /\ hist.events[1].HistoryInternalName # <<>>
    /\ hist.events[2] # hist.events[1]
    /\ hist.input[Len(hist.input)] # <<>>

\* C17, as stated: once a time field that is no integer was read, the
\* decoder has stopped with an error; a stopped decoder stays stopped, no
\* event is received any more, and the store of the collector no longer
\* changes once the loop is back at its select
C17_MalformedFieldIsTerminal ==
    [][/\ hist'.malformed => dec'.pc = "error"
       /\ dec.pc = "error" =>
             /\ dec' = dec
             /\ hist'.events = hist.events
             /\ (phase = "up" /\ el.pc = "select") => datasets' = datasets]_vars

\* C17, amended: the same for a time of two fields or more whose first or
\* second field is no integer
C17_TwoFieldTimeIsTerminal ==
    [][/\ hist'.terminal => dec'.pc = "error"
       /\ dec.pc = "error" =>
             /\ dec' = dec
             /\ hist'.events = hist.events
             /\ (phase = "up" /\ el.pc = "select") => datasets' = datasets]_vars

C17_Witness ==
    /\ dec.pc = "error"
    /\ hist.terminal
    /\ feed.pipe # <<>>
    /\ Len(hist.events) = 1
    /\ el.pc = "select"
    /\ datasets # EmptyStore
    /\ loop = "running"

\* C19: the loop exits on cancellation only from its select, so an event it
\* has received is processed to its end, and after the exit the store no
\* longer changes
C19_CancelOnlyAtSelect ==
    [][/\ (loop = "running" /\ loop' = "exited" /\ hist'.why = "cancel") =>
             el.pc = "select"
       /\ loop = "exited" => datasets' = datasets]_vars

C19_Witness ==
    /\ hist.inflight
    /\ last.op = "snapshot"
    /\ ~last.err
    /\ datasets # before
    /\ loop = "running"

\* C20: once the feed's process has exited and the decoder has read all it
\* wrote, the decoder returns
C20_DecoderTerminates ==
    (feed.state = "exited" /\ feed.pipe = <<>> /\ dec.pc = "scan") ~> (dec.pc = "done")

\* C21: datasets are never forgotten. No step of the collector removes a key
\* of the store, a dataset whose last record was removed stays in the map
\* with an empty list, and a scrape reports every key of the store, a
\* dataset with an empty list with count 0 and used 0.
C21_DatasetsNeverForgotten ==
    [][/\ DOMAIN datasets \subseteq DOMAIN datasets'
       /\ (last'.op = "destroy" /\ ~last'.err /\ last'.dataset \in DOMAIN datasets)
            => last'.dataset \in DOMAIN datasets'
       /\ last'.op = "collect"
            => /\ DOMAIN last'.metrics = DOMAIN datasets
               /\ \A d \in DOMAIN datasets :
                    datasets[d] = <<>> => /\ last'.metrics[d].count = 0
                                          /\ last'.metrics[d].used = 0]_vars

\* a scrape that reports a dataset whose last record a destroy event removed
C21_Witness ==
    /\ last.op = "collect"
    /\ \E d \in DOMAIN datasets :
         /\ datasets[d] = <<>>
         /\ last.metrics[d].count = 0
         /\ last.metrics[d].used = 0

\* C22: a startup listing that fails, or that holds a malformed line, makes
\* the construction fail: no collector is returned, the map that parse was
\* filling is dropped, no event loop is started, nothing is ever received
\* from the decoder and no store is ever mutated.
C22_StartupFailureIsFatal ==
    /\ (last.op = "startup" /\ last.err) => phase = "failed"
    /\ phase = "failed" => /\ loop = "idle"
                           /\ datasets = EmptyStore
                           /\ el.pc = "select"
                           /\ ~lck
                           /\ hist.events = <<>>

\* the construction failed on the second line of the startup listing, after
\* parse had put the first line in its map, and the decoder holds an event
\* that nobody will receive
C22_Witness ==
    /\ phase = "failed"
    /\ last.op = "startup"
    /\ ~last.listErr
    /\ Len(last.lines) = 2
    /\ dec.pc = "send"

\* the series of a node in a status vector are one-hot: every state of
\* poolStates has a series, one of them is 1 and the others are 0
OneHot(m, labels) ==
    /\ \A i \in 1..Len(poolStates) :
         /\ Append(labels, poolStates[i]) \in DOMAIN m
         /\ m[Append(labels, poolStates[i])] \in {0, 1}
    /\ Cardinality({i \in 1..Len(poolStates) : m[Append(labels, poolStates[i])] = 1}) = 1

\* C23: for every pool and disk node a scrape emits, whatever the health of
\* its row, exactly one of the six state series is 1 and the others are 0.
C23_HealthOneHot ==
    ph.n > 0 =>
        /\ \A i \in 1..Len(ph.cur.parsed.pools) :
             OneHot(ph.cur.out.metricStatus, <<ph.cur.parsed.pools[i].Name>>)
        /\ \A i \in 1..Len(ph.cur.parsed.disks) :
             OneHot(ph.cur.out.metricDiskStatus,
                    <<ph.cur.parsed.disks[i].Name, ph.cur.parsed.disks[i].Pool>>)

\* the rows of a report are indented as a tree: the first row is at level
\* 0 and no row is more than one level deeper than the row before it
WellIndented(rows) ==
    /\ rows # <<>> => rows[1].level = 0
    /\ \A i \in 2..Len(rows) : rows[i].level <= rows[i - 1].level + 1

\* the row that encloses row i at level l: the nearest row before it at
\* level l with only deeper rows in between; 0 when there is none
Encloser(rows, i, l) ==
    LET js == {j \in 1..(i - 1) : /\ rows[j].level = l
                                  /\ \A k \in (j + 1)..(i - 1) : rows[k].level > l}
    IN  IF js = {} THEN 0 ELSE CHOOSE j \in js : \A k \in js : k <= j

\* the names of the rows that enclose row i, from level `from` on, without
\* the root row of the pool
RECURSIVE EnclosingNames(_, _, _, _)
EnclosingNames(pool, rows, i, from) ==
    IF from >= rows[i].level THEN <<>>
    ELSE LET j == Encloser(rows, i, from)
         IN  (IF j = 0 \/ (from = 0 /\ rows[j].name = pool) THEN <<>> ELSE <<rows[j].name>>)
                 \o EnclosingNames(pool, rows, i, from + 1)

\* the rows of a report that are disks with counters, in the order of the report
RECURSIVE DiskRowsOf(_, _)
DiskRowsOf(rows, i) ==
    IF i > Len(rows) THEN <<>>
    ELSE (IF rows[i].name[1] = "/" /\ rows[i].counts # <<>> THEN <<i>> ELSE <<>>)
             \o DiskRowsOf(rows, i + 1)

\* C24: in a report indented as a tree every disk row is emitted once, in
\* the order of the rows, its name is its device path unchanged and its
\* pool label is the pool name and the names of the rows that enclose it,
\* joined by "/", without the disk's own name and without the root row.
C24_DiskPoolLabel ==
    (ph.n > 0 /\ WellIndented(ph.cur.report.rows)) =>
        LET rows == ph.cur.report.rows
            at == DiskRowsOf(rows, 1)
            disks == ph.cur.parsed.disks
        IN  /\ Len(disks) = Len(at)
            /\ \A n \in 1..Len(at) :
                 /\ disks[n].Name = rows[at[n]].name
                 /\ disks[n].Pool =
                       JoinSlash(<<ph.cur.report.pool>>
                                     \o EnclosingNames(ph.cur.report.pool, rows, at[n], 0))

\* a scrape emitted a disk below the vdev raidz1-0 of the pool tank
C24_Witness ==
    /\ ph.n > 0
    /\ WellIndented(ph.cur.report.rows)
    /\ \E i \in 1..Len(ph.cur.parsed.disks) :
         /\ ph.cur.parsed.disks[i].Pool = <<"tank", "/", "raidz1-0">>
         /\ ph.cur.parsed.disks[i].Name = <<"/", "dev/sdb">>

\* C25: a scrape that finds the report and the store as the scrape before
\* it found them exports the same value for every series, the error
\* counters included.
C25_ScrapeTwiceSame ==
    ph.k >= 2 => /\ ph.cur.out = ph.prev.out
                 /\ ph.cur.snapshot = ph.prev.snapshot

\* the second scrape of a report with a disk that has errors and of a store
\* with a snapshot
C25_Witness ==
    /\ ph.k = 2
    /\ \E l \in DOMAIN ph.cur.out.metricDiskErrors : ph.cur.out.metricDiskErrors[l] > 0
    /\ \E d \in DOMAIN ph.cur.snapshot : ph.cur.snapshot[d].count > 0

\* the value a report shows for a label tuple: the sum over the nodes with
\* these labels
RECURSIVE SumWhere(_, _)
SumWhere(pairs, labels) ==
    IF pairs = <<>> THEN 0
    ELSE (IF pairs[1].l = labels THEN pairs[1].v ELSE 0) + SumWhere(Tail(pairs), labels)

ReportValue(nodes, labelsOf(_), labels, col(_)) ==
    SumWhere([i \in 1..Len(nodes) |-> [l |-> labelsOf(nodes[i]), v |-> col(nodes[i].Errors)]],
             labels)

PoolLabels(node) == <<node.Name>>
DiskLabels(node) == <<node.Name, node.Pool>>
ReadOf(e) == e.Read
WriteOf(e) == e.Write
CksumOf(e) == e.Cksum

\* every counter of the vector m is `times` the value the nodes show
CountersAre(m, nodes, labelsOf(_), times) ==
    /\ DOMAIN m = UNION {{Append(labelsOf(nodes[i]), <<"read">>),
                          Append(labelsOf(nodes[i]), <<"write">>),
                          Append(labelsOf(nodes[i]), <<"checksum">>)} : i \in 1..Len(nodes)}
    /\ \A i \in 1..Len(nodes) :
         LET l == labelsOf(nodes[i]) IN
         /\ m[Append(l, <<"read">>)] = times * ReportValue(nodes, labelsOf, l, ReadOf)
         /\ m[Append(l, <<"write">>)] = times * ReportValue(nodes, labelsOf, l, WriteOf)
         /\ m[Append(l, <<"checksum">>)] = times * ReportValue(nodes, labelsOf, l, CksumOf)

\* no counter that both vectors hold is smaller in `now` than in `then`
NotDecreased(then, now) ==
    \A l \in DOMAIN then \cap DOMAIN now : then[l] <= now[l]

\* C26: the error counters are additive across scrapes: after k scrapes of
\* a report the exported counter of a node is k times the value the report
\* shows, and no exported counter decreases from one scrape to the next.
C26_CountersAdditive ==
    /\ (ph.n > 0 /\ ph.k = ph.n) =>
          /\ CountersAre(ph.cur.out.metricErrors, ph.cur.parsed.pools, PoolLabels, ph.k)
          /\ CountersAre(ph.cur.out.metricDiskErrors, ph.cur.parsed.disks, DiskLabels, ph.k)
    /\ ph.n > 1 =>
          /\ NotDecreased(ph.prev.out.metricErrors, ph.cur.out.metricErrors)
          /\ NotDecreased(ph.prev.out.metricDiskErrors, ph.cur.out.metricDiskErrors)

\* C26 as amended: every scrape resets the counters and adds the values of
\* the report, so after any number of scrapes the exported counter of a node
\* is the value the report of that scrape shows for it.
C26_CountersShowReport ==
    ph.n > 0 =>
        /\ CountersAre(ph.cur.out.metricErrors, ph.cur.parsed.pools, PoolLabels, 1)
        /\ CountersAre(ph.cur.out.metricDiskErrors, ph.cur.parsed.disks, DiskLabels, 1)

\* a scrape whose report shows less read errors for a disk than the report
\* of the scrape before it, and exports less
C26_Witness ==
    /\ ph.n > 1
    /\ \E l \in DOMAIN ph.prev.out.metricDiskErrors \cap DOMAIN ph.cur.out.metricDiskErrors :
         ph.cur.out.metricDiskErrors[l] < ph.prev.out.metricDiskErrors[l]

C28_FailedRequeryKeepsLoop ==
    (last.op = "list" /\ last.listErr) => loop = "running"

\* the dataset a listing line is filed under
LineDataset(fields) == DatasetOf(fields[1])

\* the datasets of a store and of the store before it that are not d
OtherDatasets(d) == (DOMAIN before \cup DOMAIN datasets) \ {d}

\* C29: a snapshot or destroy event for dataset D changes only D's list:
\* every other dataset has the records it had before the event, in the same
\* order, whatever lines the re-query returned.
C29_OnlyEventDatasetChanges ==
    last.op \in {"snapshot", "destroy"} =>
        \A d \in OtherDatasets(last.dataset) : Get(datasets, d) = Get(before, d)

\* the same for a re-query that returned lines of the event's dataset only
C29_OwnLinesOnlyEventDatasetChanges ==
    (/\ last.op \in {"snapshot", "destroy"}
     /\ \A i \in 1..Len(last.lines) :
          LastIndex(last.lines[i][1]) > 0 =>
              LineDataset(last.lines[i]) = last.dataset) =>
        \A d \in OtherDatasets(last.dataset) : Get(datasets, d) = Get(before, d)

\* a snapshot event whose re-query returned lines of its own dataset only
\* was applied while another dataset had records
C29_OwnLinesWitness ==
    /\ last.op = "snapshot"
    /\ ~last.err
    /\ last.lines # <<>>
    /\ \A i \in 1..Len(last.lines) : LineDataset(last.lines[i]) = last.dataset
    /\ \E d \in OtherDatasets(last.dataset) : Get(datasets, d) # <<>>

\* the two parts of an identifier around its last "@", said without
\* LastIndex: the name is what follows an "@" and holds no "@" itself
SplitLast(id) ==
    CHOOSE p \in {<<SubSeq(id, 1, i - 1), SubSeq(id, i + 1, Len(id))>> :
                     i \in {j \in 1..Len(id) : id[j] = "@"}} :
        \A k \in 1..Len(p[2]) : p[2][k] # "@"

\* every line of a listing that was parsed to its end left a record under
\* the dataset and the name that the split at the last "@" gives
ListedUnderLastAt ==
    (last.op \in {"startup", "snapshot"} /\ ~last.err) =>
        \A i \in 1..Len(last.lines) :
            LET p == SplitLast(last.lines[i][1])
            IN  HasName(Get(datasets, p[1]), p[2])

\* C30: the listing parser and the event loop split an identifier at its
\* last "@", also when it holds several: a listed line leaves its record
\* under that dataset and name, and a destroy event for the identifier of a
\* record of the store removes exactly that record and no other.
C30_DestroyRemovesListedRecord ==
    /\ ListedUnderLastAt
    /\ LET p == SplitLast(last.id) IN
       (last.op = "destroy" /\ HasName(Get(before, p[1]), p[2])) =>
           /\ ~crashed
           /\ ~HasName(Get(datasets, p[1]), p[2])
           /\ \E i \in 1..Len(before[p[1]]) :
                 /\ before[p[1]][i].name = p[2]
                 /\ datasets = Put(before, p[1], RemoveAt(before[p[1]], i))

\* the same for a destroy event that finds one record of its name
C30_SplitAtLastAt ==
    /\ ListedUnderLastAt
    /\ LET p == SplitLast(last.id) IN
       (/\ last.op = "destroy"
        /\ Len(SelectSeq(Get(before, p[1]), LAMBDA r : r.name = p[2])) = 1) =>
           /\ ~crashed
           /\ ~HasName(Get(datasets, p[1]), p[2])
           /\ \E i \in 1..Len(before[p[1]]) :
                 /\ before[p[1]][i].name = p[2]
                 /\ datasets = Put(before, p[1], RemoveAt(before[p[1]], i))

\* d1@a@b was listed beside d1@b and a destroy event for d1@a@b took the
\* record b of the dataset d1@a and left the record b of d1
C30_SplitWitness ==
    /\ last.op = "destroy"
    /\ last.id = IdAB
    /\ HasName(Get(before, Id(D1, NA)), NB)
    /\ ~HasName(Get(datasets, Id(D1, NA)), NB)
    /\ HasName(Get(datasets, D1), NB)

\* the values of the lines of a record, its first line aside, that have the
\* key and satisfy ok
ValuesOf(rec, key, ok(_)) ==
    {ValueOf(rec[j], IndexByte(rec[j], "=")) :
        j \in {k \in 2..Len(rec) : HasKey(rec[k], key) /\ ok(rec[k])}}

\* a field of an event is the value of a line of the record, or empty when
\* the record has no such line
FieldFrom(field, values) ==
    IF values = {} THEN field = <<>>
    ELSE \E v \in values : field = trimDoubleQuotes(v)

TimeFrom(time, values) ==
    IF values = {} THEN time = ZeroTime
    ELSE \E v \in values :
            time = Unix(ParseInt0(Fields(v)[1]).v, ParseInt0(Fields(v)[2]).v)

\* C31: the decoder carries nothing from one record to the next: every
\* event received has its name, its identifier and its time from a
\* key = value line of its own record, the first line of the record is
\* never such a line whatever it holds, and a field whose key the record
\* lacks is empty.
C31_NoStateAcrossRecords ==
    LET recs == CompleteRecords(hist.input)
        any(l) == TRUE
        two(l) == Len(TimeFields(l)) >= 2
    IN  \A i \in 1..Len(hist.events) :
            /\ i <= Len(recs)
            /\ FieldFrom(hist.events[i].HistoryInternalName,
                         ValuesOf(recs[i], <<"history_internal_name">>, any))
            /\ FieldFrom(hist.events[i].HistoryDSName,
                         ValuesOf(recs[i], <<"history_dsname">>, any))
            /\ TimeFrom(hist.events[i].Time, ValuesOf(recs[i], <<"time">>, two))

\* the second record is one line that has the shape of a name field; its
\* event was received with no name although the first event had one
C31_Witness ==
    /\ Len(hist.events) = 2
    /\ hist.events[1].HistoryInternalName # <<>>
    /\ hist.events[2] = newEvent
    /\ LET rec == CompleteRecords(hist.input)[2] IN
       /\ Len(rec) = 1
       /\ HasKey(rec[1], <<"history_internal_name">>)

\* C32: once the event loop has exited, a decoder that stands at its send
\* does not stay there for ever: it eventually returns.
C32_DecoderLeavesSend ==
    (loop = "exited" /\ dec.pc = "send") ~> (dec.pc \in {"done", "error"})

\* what the code does instead: a decoder at its send when the loop has
\* exited takes no step any more
C32_StuckAtSend ==
    [][(loop = "exited" /\ dec.pc = "send") => dec' = dec]_vars

\* the loop has exited on a cancellation, and on a failed listing, while the
\* decoder stands at its send with the next event
C32_StuckWitness ==
    /\ loop = "exited"
    /\ dec.pc = "send"
    /\ hist.why = "error"
    /\ dec.event.HistoryInternalName = <<"destroy">>

\* the last section of the report parseStatus was called with, and its rows
LastSection == pst.doc[Len(pst.doc)]

\* the nearest row before row i at level l; 0 when there is none
NearestAt(rows, i, l) ==
    LET js == {j \in 1..(i - 1) : rows[j].level = l}
    IN  IF js = {} THEN 0 ELSE CHOOSE j \in js : \A k \in js : k <= j

\* the trace after the last row of the report: the pool's name, the names
\* of the nearest rows before it at the levels below its own, and its name
TraceAfterLastRow ==
    LET rows == LastSection.rows
        i == Len(rows)
        L == rows[i].level
        trace == TraceOf(pst.st.trace)
    IN  /\ Len(trace) = L + 2
        /\ trace[1] = LastSection.pool
        /\ trace[L + 2] = rows[i].name
        /\ \A k \in 0..(L - 1) :
             NearestAt(rows, i, k) # 0 => trace[k + 2] = rows[NearestAt(rows, i, k)].name

\* C33: after a row at level L the trace is the pool's name, the names of
\* the nearest rows before it at the levels 0..L-1 and the row's own name,
\* for any sequence of rows, a row more than one level deeper than the row
\* before it included, and the parser does not fail on it.
C33_TraceFollowsLevels ==
    (pst.called /\ LastSection.rows # <<>>) =>
        /\ ~pst.st.panic
        /\ TraceAfterLastRow

\* the same for the reports on which parseStatus does not panic
C33_TraceWhenNoPanic ==
    (pst.called /\ LastSection.rows # <<>> /\ ~pst.st.panic) => TraceAfterLastRow

\* the last row is two levels deeper than the row before it and the parser
\* went through
C33_JumpWitness ==
    /\ pst.called
    /\ ~pst.st.panic
    /\ Len(LastSection.rows) = 5
    /\ TraceOf(pst.st.trace) = <<<<"tank">>, <<"cache">>, <<"raidz1-0">>, <<"/", "dev/sdb">>>>

\* the section of every row of a report that has counters and is a disk
\* (disk = TRUE) or is none (disk = FALSE), in the order of the report
RECURSIVE NodeSections(_, _, _, _)
NodeSections(doc, s, i, disk) ==
    IF s > Len(doc) THEN <<>>
    ELSE IF i > Len(doc[s].rows) THEN NodeSections(doc, s + 1, 1, disk)
    ELSE (IF doc[s].rows[i].counts # <<>> /\ (doc[s].rows[i].name[1] = "/") = disk
          THEN <<s>> ELSE <<>>) \o NodeSections(doc, s, i + 1, disk)

\* a pool label of a node of the section: it starts with the name of the
\* section's pool and its other segments are names of rows of the section
LabelOfSection(label, sec) ==
    /\ label # <<>>
    /\ label[1] = sec.pool[1]
    /\ \A k \in 1..Len(label) :
         \/ label[k] \in {"/", sec.pool[1]}
         \/ \E i \in 1..Len(sec.rows) :
               \E j \in 1..Len(sec.rows[i].name) : label[k] = sec.rows[i].name[j]

\* C34: a pool: line resets the path: every node emitted after it has a
\* pool label that starts with that pool's name and holds no segment of an
\* earlier pool's rows, and the lines between the pool: line and the NAME
\* header of the pool emit no node.
C34_PoolLineResetsPath ==
    pst.called =>
        LET ps == NodeSections(pst.doc, 1, 1, FALSE)
            ds == NodeSections(pst.doc, 1, 1, TRUE)
        IN  /\ Len(pst.st.pools) <= Len(ps)
            /\ Len(pst.st.disks) <= Len(ds)
            /\ \A k \in 1..Len(pst.st.pools) :
                 LabelOfSection(pst.st.pools[k].Name, pst.doc[ps[k]])
            /\ \A k \in 1..Len(pst.st.disks) :
                 LabelOfSection(pst.st.disks[k].Pool, pst.doc[ds[k]])

\* the second pool of the report has a note shaped like a row above its
\* config section, and a disk below a row of its own
C34_Witness ==
    /\ pst.called
    /\ Len(pst.doc) = 2
    /\ pst.doc[2].notes # <<>>
    /\ ~pst.st.panic
    /\ Len(pst.st.pools) = 3
    /\ pst.st.pools[3].Name = <<"data">>
    /\ Len(pst.st.disks) = 2
    /\ pst.st.disks[1].Pool = <<"tank", "/", "raidz1-0">>
    /\ pst.st.disks[2].Pool = <<"data">>

\* the rows of a section that have counters
CountedRows(rows) == {i \in 1..Len(rows) : rows[i].counts # <<>>}

\* C35: a row of fewer than five fields emits no node and no error, and
\* its name is a segment of the path all the same: a disk whose nearest
\* row one level above is such a row has a pool label that ends with that
\* row's name.
C35_ShortRowIsSegment ==
    (pst.called /\ Len(pst.doc) = 1 /\ ~pst.st.panic /\ pst.st.err = {}) =>
        LET rows == pst.doc[1].rows
            at == DiskRowsOf(rows, 1)
            disks == pst.res.disks
        IN  /\ Len(pst.res.pools) + Len(disks) = Cardinality(CountedRows(rows))
            /\ Len(disks) = Len(at)
            /\ \A n \in 1..Len(at) :
                 LET i == at[n]
                     j == IF rows[i].level = 0 THEN 0
                          ELSE NearestAt(rows, i, rows[i].level - 1)
                 IN  (j # 0 /\ rows[j].counts = <<>>) =>
                        /\ Len(disks[n].Pool) >= 2
                        /\ disks[n].Pool[Len(disks[n].Pool) - 1] = "/"
                        /\ disks[n].Pool[Len(disks[n].Pool)] = rows[j].name[1]

\* a disk below the row cache, which has no counters, of the pool tank
C35_Witness ==
    /\ pst.called
    /\ ~pst.st.panic
    /\ pst.st.err = {}
    /\ Len(pst.doc) = 1
    /\ Len(pst.res.pools) = 1
    /\ Len(pst.res.disks) = 1
    /\ pst.res.disks[1].Pool = <<"tank", "/", "cache">>
    /\ Len(pst.doc[1].rows) = 3

\* the rows of a section that have counters and are disks (disk = TRUE) or
\* are none, in the order of the section
RECURSIVE NodeRows(_, _, _)
NodeRows(rows, i, disk) ==
    IF i > Len(rows) THEN <<>>
    ELSE (IF rows[i].counts # <<>> /\ (rows[i].name[1] = "/") = disk
          THEN <<i>> ELSE <<>>) \o NodeRows(rows, i + 1, disk)

\* the value of a column that is a decimal number
IsNumber(f) == f # <<>> /\ AllDigits(f)

\* the counters of a node are the numbers in the columns a, b and c of the
\* fields that follow the health of its row
CountersFrom(errors, counts, a, b, c) ==
    /\ IsNumber(counts[a]) /\ errors.Read = DecimalValue(counts[a])
    /\ IsNumber(counts[b]) /\ errors.Write = DecimalValue(counts[b])
    /\ IsNumber(counts[c]) /\ errors.Cksum = DecimalValue(counts[c])

\* the nodes of a report of one pool have their counters from the columns
\* that pick(counts) names
NodesCountFrom(pick(_)) ==
    LET rows == pst.doc[1].rows
        pr == NodeRows(rows, 1, FALSE)
        dr == NodeRows(rows, 1, TRUE)
    IN  /\ pst.res.err = {}
        /\ Len(pst.res.pools) = Len(pr)
        /\ Len(pst.res.disks) = Len(dr)
        /\ \A n \in 1..Len(pr) :
             LET p == pick(rows[pr[n]].counts) IN
             CountersFrom(pst.res.pools[n].Errors, rows[pr[n]].counts, p[1], p[2], p[3])
        /\ \A n \in 1..Len(dr) :
             LET p == pick(rows[dr[n]].counts) IN
             CountersFrom(pst.res.disks[n].Errors, rows[dr[n]].counts, p[1], p[2], p[3])

\* the report has one pool, the parser did not panic and the third, fourth
\* and fifth field of every row that has them are numbers
NumbersInColumns ==
    /\ pst.called
    /\ Len(pst.doc) = 1
    /\ ~pst.st.panic
    /\ \A i \in CountedRows(pst.doc[1].rows) :
         \A k \in 1..3 : IsNumber(pst.doc[1].rows[i].counts[k])

\* C36, as stated: the read, write and checksum counters of a row of five
\* fields or more are its last three fields, in that order.
C36_CountersFromLastThree ==
    NumbersInColumns =>
        NodesCountFrom(LAMBDA counts : <<Len(counts) - 2, Len(counts) - 1, Len(counts)>>)

\* C36, amended: the read, write and checksum counters of a row of five
\* fields or more are its third, fourth and fifth field, in that order,
\* whatever follows them; they are the last three when the row has five.
C36_CountersFromThirdToFifth ==
    NumbersInColumns => NodesCountFrom(LAMBDA counts : <<1, 2, 3>>)

\* a row of six fields, a note after its counters, was emitted with the
\* counters of its third, fourth and fifth field
C36_Witness ==
    /\ NumbersInColumns
    /\ \E i \in 1..Len(pst.doc[1].rows) : Len(pst.doc[1].rows[i].counts) = 4
    /\ \E n \in 1..Len(pst.res.disks) :
         /\ pst.res.disks[n].Name = <<"/", "dev/sdc">>
         /\ pst.res.disks[n].Errors = [Read |-> 1, Write |-> 2, Cksum |-> 3]

\* the first row of a section whose third, fourth or fifth field is no
\* number; 0 when there is none
FirstBadRow(rows) ==
    LET bad == {i \in CountedRows(rows) : \E k \in 1..3 : ~IsNumber(rows[i].counts[k])}
    IN  IF bad = {} THEN 0 ELSE CHOOSE i \in bad : \A j \in bad : i <= j

\* the columns of a row that are no numbers
FailingColumns(row) ==
    {c \in {"read", "write", "cksum"} :
        \/ c = "read" /\ ~IsNumber(row.counts[1])
        \/ c = "write" /\ ~IsNumber(row.counts[2])
        \/ c = "cksum" /\ ~IsNumber(row.counts[3])}

\* C37: when counters of a row are no numbers, the three columns are all
\* tried and the parse returns one error that names exactly the columns
\* that failed, and no nodes, those of the rows before it included.
C37_AggregatedCounterError ==
    (/\ pst.called
     /\ Len(pst.doc) = 1
     /\ ~pst.st.panic
     /\ FirstBadRow(pst.doc[1].rows) # 0) =>
        /\ pst.res.err = FailingColumns(pst.doc[1].rows[FirstBadRow(pst.doc[1].rows)])
        /\ pst.res.pools = <<>>
        /\ pst.res.disks = <<>>

\* the read and the checksum column of a row are no numbers, and rows before
\* it had made nodes
C37_Witness ==
    /\ pst.called
    /\ ~pst.st.panic
    /\ pst.res.err = {"read", "cksum"}
    /\ pst.st.pools # <<>>
    /\ pst.st.disks # <<>>
    /\ pst.res.pools = <<>>
    /\ pst.res.disks = <<>>

\* C38: whenever a run of the text file output returns without error, the
\* target file holds what that run rendered: it was written, or it was
\* skipped because the file holds the same content already.
C38_ReturnedRenderIsInFile ==
    (tfo.pc = "idle" /\ tfo.ret \in {"ok", "skip"}) => tfo.file = tfo.rendered

\* the part of C38 the code keeps: the target file changes only in the
\* rename, to a temporary file that holds all of what the run rendered, and
\* a run that wrote leaves that content in the file
C38_ReplacedOnlyByRename ==
    [][/\ tfo'.file # tfo.file =>
             /\ tfo.pc = "rename"
             /\ tfo.tmp = tfo.buf
             /\ tfo'.file = tfo.rendered
       /\ tfo'.ret = "ok" => tfo'.file = tfo'.rendered]_vars

\* a run was skipped after the run before it had failed to write the same
\* content, and the file holds the content of an earlier run
C38_StaleWitness ==
    /\ tfo.pc = "idle"
    /\ tfo.ret = "skip"
    /\ tfo.file # ""
    /\ tfo.file # tfo.rendered
    /\ tfo.tmp = tfo.rendered

====
